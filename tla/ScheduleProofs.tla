---------------------------- MODULE ScheduleProofs ----------------------------
(*****************************************************************************)
(* Theorems about schedules: VMSchedule for any schedules, editors, tasks,  *)
(* period, batch and any number of writes, crashes and failed writes; and   *)
(* what calculateNextRun answers, for days and clocks of any length.        *)
(*****************************************************************************)
EXTENDS VMSchedule, ScheduleClock, TLAPS

(* VMSchedule.                                                              *)

(* A handler between markScheduleRunning and finishScheduleExecution.      *)
Marked == {"look", "act", "clear", "success", "failed"}

(* The runner has a snapshot of the row, or has just submitted it.         *)
Listed(s) == \E d \in due : d.id = s
InHand(s) == sent # None /\ sent.snap.id = s

(* The row will be due, not before now.                                    *)
Armed(s) == row[s] # None /\ row[s].enabled /\ row[s].next # None
Later(n) == IF n <= now THEN now ELSE n

(* A repeating schedule is not due before its first time.                  *)
Timely(r) == r.kind = "daily" /\ r.next # None => r.next >= Period

TimesInv ==
    /\ \A s \in Schedules : row[s] # None => Timely(row[s])
    /\ \A e \in Editors : edit[e] # None => Timely(edit[e].row)
    /\ \A d \in due : Timely(d.row)

DueInv ==
    /\ \A d, e \in due : d.id = e.id => d = e
    /\ \A d \in due : d.row.next \in Times /\ d.row.next <= scanned /\ armings[d.id] > 0
    /\ \A s \in Schedules : row[s] # None /\ row[s].next # None => armings[s] > 0
    /\ \A s \in Schedules : armings[s] <= stores[s]

(* What has been allowed by time t, and that a row which will be due still *)
(* has a run to its credit, whether it is in the database or in the scan.  *)
Allowed(s, t) == armings[s] + faults + FollowUps(t)

Account(s) ==
    /\ fired[s] <= Allowed(s, now)
    /\ armings[s] = 0 => fired[s] = 0
    /\ InHand(s) => fired[s] <= Allowed(s, scanned)
    /\ Listed(s) /\ ~ InHand(s) => fired[s] + 1 <= Allowed(s, scanned)
    /\ Armed(s) /\ ~ Listed(s) => fired[s] + 1 <= Allowed(s, Later(row[s].next))

AccountInv == \A s \in Schedules : Account(s)

TaskInv ==
    \A r \in Runs : /\ step[r] # "none" <=> phase[r] = "executing"
                    /\ fire[r] # None <=> phase[r] \in {"waiting", "executing"}

(* Only the first write of a row can have read no row.                     *)
FirstInv ==
    \A s \in Schedules : stores[s] = 0 =>
        /\ row[s] = None
        /\ \A e \in Editors : edit[e] # None /\ edit[e].id = s => edit[e].row.last = ""

RunningInv ==
    \A s \in Schedules :
        (row[s] # None /\ row[s].last = "running" /\ stores[s] <= 1 /\ faults = 0) =>
            \E r \in Runs : fire[r] # None /\ fire[r].id = s /\ step[r] \in Marked

TimingInv == TimesInv /\ DueInv /\ AccountInv
CarriedInv == TaskInv /\ FirstInv /\ RunningInv
ScheduleInv == TypeOK /\ TimingInv /\ CarriedInv

-----------------------------------------------------------------------------
(* The multiples of Period.                                                *)
LEMMA Quotient ==
    ASSUME NEW t \in Nat
    PROVE  /\ t \div Period \in Nat
           /\ (t \div Period) * Period <= t
           /\ t < ((t \div Period) + 1) * Period
           /\ t >= Period => t \div Period >= 1
  BY ScheduleAssumption, Z3

LEMMA QuotientIs ==
    ASSUME NEW t \in Nat, NEW q \in Nat, q * Period <= t, t < (q + 1) * Period
    PROVE  t \div Period = q
  BY ScheduleAssumption, Z3

LEMMA QuotientMonotone ==
    ASSUME NEW a \in Nat, NEW b \in Nat, a <= b
    PROVE  a \div Period <= b \div Period
  BY ScheduleAssumption, Z3

(* Follow-ups grow with time, ...                                          *)
LEMMA FollowUpsGrow ==
    /\ \A t \in Nat : FollowUps(t) \in Nat
    /\ \A a, b \in Nat : a <= b => FollowUps(a) <= FollowUps(b)
<1>1. ASSUME NEW t \in Nat PROVE FollowUps(t) \in Nat
  BY Quotient DEF FollowUps
<1>2. ASSUME NEW a \in Nat, NEW b \in Nat, a <= b PROVE FollowUps(a) <= FollowUps(b)
  <2>1. a \div Period \in Nat /\ b \div Period \in Nat /\ a \div Period <= b \div Period
    BY <1>2, Quotient, QuotientMonotone
  <2>2. b >= Period => b \div Period >= 1
    BY Quotient
  <2> QED BY <1>2, <2>1, <2>2, ScheduleAssumption DEF FollowUps
<1> QED BY <1>1, <1>2

(* ... and by one at each time of a repeating schedule but its first.      *)
LEMMA NextTime ==
    ASSUME NEW t \in Nat
    PROVE  LET n == (t \div Period + 1) * Period IN
             /\ n \in Nat /\ n > t /\ n >= Period /\ n <= t + Period
             /\ "daily" \in Kinds /\ t >= Period => FollowUps(n) = FollowUps(t) + 1
<1> DEFINE q == t \div Period
           n == (q + 1) * Period
<1>1. q \in Nat /\ q * Period <= t /\ t < n /\ (t >= Period => q >= 1)
  BY Quotient
<1>2. Period \in Nat /\ Period >= 1
  BY ScheduleAssumption
<1> HIDE DEF q
<1>3. n = q * Period + Period /\ q * Period \in Nat
  BY <1>1, <1>2
<1>4. n \in Nat /\ n > t /\ n >= Period /\ n <= t + Period
  BY <1>1, <1>2, <1>3
<1>5. n \div Period = q + 1
  <2>1. (q + 1) * Period <= n /\ n < ((q + 1) + 1) * Period
    <3>1. ((q + 1) + 1) * Period = (q + 1) * Period + Period
      BY <1>1, <1>2
    <3> QED BY <1>2, <1>4, <3>1
  <2> QED BY <1>1, <1>4, <2>1, QuotientIs
<1>6. ASSUME "daily" \in Kinds, t >= Period PROVE FollowUps(n) = FollowUps(t) + 1
  <2>1. FollowUps(n) = (q + 1) - 1
    BY <1>4, <1>5, <1>6 DEF FollowUps
  <2>2. FollowUps(t) = q - 1
    BY <1>6 DEF FollowUps, q
  <2> QED BY <1>1, <2>1, <2>2
<1> HIDE DEF n
<1> QED BY <1>4, <1>6 DEF n, q
-----------------------------------------------------------------------------
(* The times a request may choose.                                         *)
LEMMA BuiltRow ==
    ASSUME TypeOK, NEW enabled \in BOOLEAN, NEW last,
           NEW r \in buildVMScheduleModel(enabled, last)
    PROVE  r \in Row /\ r.last = last /\ Timely(r)
<1>1. now \in Nat
  BY ScheduleAssumption DEF TypeOK
<1>2. r \in Row /\ r.last = last
  BY DEF buildVMScheduleModel
<1>3. r.kind = "daily" /\ r.next # None => r.next = (now \div Period + 1) * Period
  BY DEF buildVMScheduleModel, NextRuns
<1>4. (now \div Period + 1) * Period >= Period
  BY <1>1, NextTime
<1> QED BY <1>2, <1>3, <1>4 DEF Timely

LEMMA ScheduleInit == Init => ScheduleInv
<1> SUFFICES ASSUME Init PROVE ScheduleInv
  OBVIOUS
<1>1. TypeOK
  <2>1. now \in 0..Horizon /\ scanned \in 0..now /\ faults \in 0..MaxFaults
    BY ScheduleAssumption DEF Init
  <2>2. 0 \in 0..MaxStores /\ "new" \in Queue!Phases /\ "none" \in Steps
    BY ScheduleAssumption DEF Queue!Phases, Steps
  <2> QED BY <2>1, <2>2 DEF Init, TypeOK, Queue!Init
<1>2. TimesInv /\ DueInv
  BY ScheduleAssumption DEF Init, TimesInv, DueInv
<1>3. AccountInv
  <2>1. FollowUps(now) \in Nat
    BY FollowUpsGrow DEF Init
  <2> QED
    BY <2>1 DEF Init, AccountInv, Account, Allowed, InHand, Listed, Armed
<1>4. CarriedInv
  BY DEF Init, Queue!Init, CarriedInv, TaskInv, FirstInv, RunningInv
<1> QED BY <1>1, <1>2, <1>3, <1>4 DEF ScheduleInv, TimingInv

-----------------------------------------------------------------------------
(* What the runs are accounted for by.  Most steps leave the times of the  *)
(* rows alone, or drop rows.                                               *)
KeepsTimes ==
    /\ UNCHANGED <<now, edit, due, scanned, sent, stores, armings, fired, faults>>
    /\ \A s \in Schedules : row'[s] # None =>
         /\ row[s] # None /\ row'[s].kind = row[s].kind
         /\ row'[s].enabled = row[s].enabled /\ row'[s].next = row[s].next

LEMMA TimesKept ==
    ASSUME TimingInv, KeepsTimes
    PROVE  TimingInv'
<1> USE DEF TimingInv, KeepsTimes
<1>1. TimesInv' /\ DueInv'
  BY DEF TimesInv, DueInv, Timely
<1>2. AccountInv'
  <2> SUFFICES ASSUME NEW s \in Schedules PROVE Account(s)'
    BY DEF AccountInv
  <2>1. Account(s)
    BY DEF AccountInv
  <2>2. /\ InHand(s)' = InHand(s) /\ Listed(s)' = Listed(s)
        /\ Armed(s)' => Armed(s) /\ row'[s].next = row[s].next
    BY DEF InHand, Listed, Armed
  <2>3. \A t : Allowed(s, t)' = Allowed(s, t)
    BY DEF Allowed, FollowUps
  <2> QED BY <2>1, <2>2, <2>3 DEF Account, Allowed, FollowUps, Later
<1> QED BY <1>1, <1>2

LEMMA TickTimes ==
    ASSUME TypeOK, TimingInv, Tick
    PROVE  TimingInv'
<1> USE DEF TimingInv
<1>1. /\ now' = now + 1 /\ now \in Nat
      /\ UNCHANGED <<row, edit, due, scanned, sent, stores, armings, fired, faults>>
  BY ScheduleAssumption DEF Tick, runner, rowvars, TypeOK
<1>2. TimesInv' /\ DueInv'
  BY <1>1 DEF TimesInv, DueInv, Timely
<1>3. AccountInv'
  <2> SUFFICES ASSUME NEW s \in Schedules PROVE Account(s)'
    BY DEF AccountInv
  <2>1. Account(s)
    BY DEF AccountInv
  <2>2. InHand(s)' = InHand(s) /\ Listed(s)' = Listed(s) /\ Armed(s)' = Armed(s)
    BY <1>1 DEF InHand, Listed, Armed
  <2>3. armings[s] \in Nat /\ faults \in Nat /\ fired[s] \in Nat
    BY ScheduleAssumption DEF TypeOK
  <2>4. Allowed(s, now)' >= Allowed(s, now) /\ Allowed(s, now) \in Nat /\ Allowed(s, now)' \in Nat
    BY <1>1, <2>3, FollowUpsGrow DEF Allowed
  <2>5. Allowed(s, scanned)' = Allowed(s, scanned)
    BY <1>1 DEF Allowed, FollowUps
  <2>6. ASSUME Armed(s)
        PROVE  /\ Allowed(s, Later(row[s].next))' >= Allowed(s, Later(row[s].next))
               /\ Allowed(s, Later(row[s].next)) \in Nat /\ Allowed(s, Later(row[s].next))' \in Nat
    <3>1. row[s].next \in Nat
      BY <2>6, ScheduleAssumption DEF TypeOK, Row, Times, Armed
    <3>2. Later(row[s].next) \in Nat /\ Later(row[s].next)' \in Nat
          /\ Later(row[s].next) <= Later(row[s].next)'
      BY <1>1, <3>1 DEF Later
    <3> QED BY <1>1, <2>3, <3>2, FollowUpsGrow DEF Allowed
  <2> QED BY <1>1, <2>1, <2>2, <2>3, <2>4, <2>5, <2>6 DEF Account
<1> QED BY <1>2, <1>3
(* What a type invariant says of the numbers.                              *)
LEMMA Numbers ==
    ASSUME TypeOK
    PROVE  /\ now \in Nat /\ now <= Horizon
           /\ scanned \in Nat /\ scanned <= now
           /\ faults \in Nat
           /\ \A s \in Schedules : armings[s] \in Nat /\ stores[s] \in Nat /\ fired[s] \in Nat
           /\ \A s \in Schedules : \A t \in Nat : Allowed(s, t) \in Nat
           /\ \A n \in Times : n \in Nat /\ Later(n) \in Nat /\ now <= Later(n) /\ n <= Later(n)
<1>1. /\ now \in Nat /\ now <= Horizon
      /\ scanned \in Nat /\ scanned <= now
      /\ faults \in Nat
      /\ \A s \in Schedules : armings[s] \in Nat /\ stores[s] \in Nat /\ fired[s] \in Nat
  BY ScheduleAssumption DEF TypeOK
<1>2. \A s \in Schedules : \A t \in Nat : Allowed(s, t) \in Nat
  BY <1>1, FollowUpsGrow DEF Allowed
<1>3. \A n \in Times : n \in Nat /\ Later(n) \in Nat /\ now <= Later(n) /\ n <= Later(n)
  BY <1>1, ScheduleAssumption DEF Times, Later
<1> QED BY <1>1, <1>2, <1>3

LEMMA BeginTimes ==
    ASSUME TypeOK, TimingInv, NEW e \in Editors, NEW s \in Schedules,
           BeginCreate(e, s) \/ BeginUpdate(e, s)
    PROVE  TimingInv'
<1>1. /\ UNCHANGED <<now, row, due, scanned, sent, stores, armings, fired, faults>>
      /\ \E f \in Entries : Timely(f.row) /\ edit' = [edit EXCEPT ![e] = f]
  <2>1. CASE BeginCreate(e, s)
    <3>0. PICK enabled \in BOOLEAN : \E r \in buildVMScheduleModel(enabled, "") :
             edit' = [edit EXCEPT ![e] = [id |-> s, row |-> [r EXCEPT !.enabled = TRUE]]]
      BY <2>1 DEF BeginCreate
    <3>1. PICK r \in buildVMScheduleModel(enabled, "") :
             edit' = [edit EXCEPT ![e] = [id |-> s, row |-> [r EXCEPT !.enabled = TRUE]]]
      BY <3>0
    <3> DEFINE f == [id |-> s, row |-> [r EXCEPT !.enabled = TRUE]]
    <3>2. r \in Row /\ Timely(r)
      BY BuiltRow
    <3>3. f \in Entries /\ f.row.kind = r.kind /\ f.row.next = r.next
      BY <3>2 DEF Entries, Row
    <3>4. Timely(f.row)
      BY <3>2, <3>3 DEF Timely
    <3> HIDE DEF f
    <3> QED BY <2>1, <3>1, <3>3, <3>4 DEF BeginCreate, runner, rowvars, f
  <2>2. CASE BeginUpdate(e, s)
    <3>0. PICK enabled \in BOOLEAN : \E r \in buildVMScheduleModel(enabled, row[s].last) :
             edit' = [edit EXCEPT ![e] = [id |-> s, row |-> r]]
      BY <2>2 DEF BeginUpdate
    <3>1. PICK r \in buildVMScheduleModel(enabled, row[s].last) :
             edit' = [edit EXCEPT ![e] = [id |-> s, row |-> r]]
      BY <3>0
    <3> DEFINE f == [id |-> s, row |-> r]
    <3>2. f \in Entries /\ Timely(f.row)
      BY BuiltRow DEF Entries
    <3> QED BY <2>2, <3>1, <3>2 DEF BeginUpdate, runner, rowvars
  <2> QED BY <2>1, <2>2
<1>2. TimesInv'
  BY <1>1 DEF TimingInv, TimesInv, Timely, TypeOK
<1>3. DueInv' /\ AccountInv'
  <2>1. DueInv'
    BY <1>1 DEF TimingInv, DueInv
  <2>2. \A r \in Schedules : Account(r)' = Account(r)
    BY <1>1 DEF Account, Allowed, FollowUps, Later, InHand, Listed, Armed
  <2> QED BY <2>1, <2>2 DEF TimingInv, AccountInv
<1> QED BY <1>2, <1>3 DEF TimingInv

LEMMA StoreTimes ==
    ASSUME TypeOK, TimingInv, NEW e \in Editors, Store(e)
    PROVE  TimingInv'
<1> DEFINE s == edit[e].id
           new == edit[e].row
<1> USE DEF TimingInv
<1>1. /\ edit[e] \in Entries /\ s \in Schedules /\ new \in Row /\ Timely(new)
      /\ row' = [row EXCEPT ![s] = new]
      /\ stores' = [stores EXCEPT ![s] = @ + 1]
      /\ armings' = IF new.next = None THEN armings ELSE [armings EXCEPT ![s] = @ + 1]
      /\ edit' = [edit EXCEPT ![e] = None]
      /\ UNCHANGED <<now, due, scanned, sent, fired, faults>>
  BY DEF Store, runner, TypeOK, Entries, TimesInv
<1> HIDE DEF s, new
<1>2. TimesInv'
  BY <1>1 DEF TimesInv, Timely, TypeOK
<1>3. ASSUME NEW r \in Schedules
      PROVE  /\ armings'[r] \in Nat /\ armings[r] \in Nat /\ armings[r] <= armings'[r]
             /\ armings[r] <= stores[r] /\ armings'[r] <= stores'[r]
             /\ r = s /\ new.next # None => armings'[r] = armings[r] + 1
             /\ r # s => armings'[r] = armings[r] /\ row'[r] = row[r]
             /\ r = s => row'[r] = new
  <2>1. armings[r] \in Nat /\ stores[r] \in Nat
    BY Numbers
  <2>2. armings[r] <= stores[r]
    BY DEF DueInv
  <2>3. stores'[r] = IF r = s THEN stores[r] + 1 ELSE stores[r]
    BY <1>1 DEF TypeOK
  <2>4. armings'[r] = IF r = s /\ new.next # None THEN armings[r] + 1 ELSE armings[r]
    BY <1>1 DEF TypeOK
  <2>5. row'[r] = IF r = s THEN new ELSE row[r]
    BY <1>1 DEF TypeOK
  <2> QED BY <2>1, <2>2, <2>3, <2>4, <2>5
<1>4. DueInv'
  <2>1. \A d \in due : armings'[d.id] > 0
    <3>1. \A d \in due : d.id \in Schedules /\ armings[d.id] > 0
      BY DEF DueInv, TypeOK, Entries
    <3> QED BY <1>3, <3>1
  <2>2. ASSUME NEW r \in Schedules, row'[r] # None, row'[r].next # None
        PROVE  armings'[r] > 0
    <3>1. CASE r = s
      BY <1>3, <2>2, <3>1
    <3>2. CASE r # s
      <4>1. armings[r] > 0
        BY <1>3, <2>2, <3>2 DEF DueInv
      <4> QED BY <1>3, <4>1
    <3> QED BY <3>1, <3>2
  <2> QED BY <1>1, <1>3, <2>1, <2>2 DEF DueInv
<1>5. AccountInv'
  <2> SUFFICES ASSUME NEW r \in Schedules PROVE Account(r)'
    BY DEF AccountInv
  <2>1. Account(r)
    BY DEF AccountInv
  <2>2. InHand(r)' = InHand(r) /\ Listed(r)' = Listed(r)
    BY <1>1 DEF InHand, Listed
  <2>3. /\ fired[r] \in Nat /\ faults \in Nat /\ now \in Nat /\ scanned \in Nat
        /\ FollowUps(now) \in Nat /\ FollowUps(scanned) \in Nat
    BY Numbers, FollowUpsGrow
  <2>4. /\ Allowed(r, now)' >= Allowed(r, now) /\ Allowed(r, scanned)' >= Allowed(r, scanned)
        /\ Allowed(r, now) \in Nat /\ Allowed(r, scanned) \in Nat
        /\ Allowed(r, now)' \in Nat /\ Allowed(r, scanned)' \in Nat
    <3>1. /\ Allowed(r, now)' = armings'[r] + faults + FollowUps(now)
          /\ Allowed(r, scanned)' = armings'[r] + faults + FollowUps(scanned)
      BY <1>1 DEF Allowed, FollowUps
    <3>2. armings'[r] \in Nat /\ armings[r] \in Nat /\ armings[r] <= armings'[r]
      BY <1>3
    <3> QED BY <2>3, <3>1, <3>2 DEF Allowed
  <2>5. armings'[r] = 0 => fired'[r] = 0
    <3>1. armings'[r] \in Nat /\ armings[r] \in Nat /\ armings[r] <= armings'[r]
      BY <1>3
    <3> QED BY <1>1, <2>1, <3>1 DEF Account
  <2>6. ASSUME Armed(r)', ~ Listed(r) PROVE fired[r] + 1 <= Allowed(r, Later(row[r].next))'
    <3>1. row'[r].next \in Times /\ row'[r] # None
      BY <1>1, <2>6 DEF Armed, TypeOK, Row
    <3>2. Later(row'[r].next) \in Nat /\ now <= Later(row'[r].next)
      BY <3>1, Numbers
    <3>3. /\ FollowUps(Later(row'[r].next)) \in Nat
          /\ FollowUps(now) <= FollowUps(Later(row'[r].next))
      BY <2>3, <3>2, FollowUpsGrow
    <3>4. CASE r = s
      <4>1. armings'[r] = armings[r] + 1
        BY <1>3, <2>6, <3>4 DEF Armed
      <4>2. Allowed(r, Later(row[r].next))' = armings[r] + 1 + faults + FollowUps(Later(row'[r].next))
        BY <1>1, <4>1 DEF Allowed, Later, FollowUps
      <4>3. armings[r] \in Nat /\ fired[r] <= armings[r] + faults + FollowUps(now)
        BY <1>3, <2>1 DEF Account, Allowed
      <4> QED BY <2>3, <3>3, <4>2, <4>3
    <3>5. CASE r # s
      <4>1. row'[r] = row[r] /\ armings'[r] = armings[r]
        BY <1>3, <3>5
      <4>2. Allowed(r, Later(row[r].next))' = Allowed(r, Later(row[r].next))
        BY <1>1, <4>1 DEF Allowed, Later, FollowUps
      <4>3. Armed(r)
        BY <2>6, <4>1 DEF Armed
      <4> QED BY <2>1, <2>6, <4>2, <4>3 DEF Account
    <3> QED BY <3>4, <3>5
  <2> QED BY <1>1, <2>1, <2>2, <2>3, <2>4, <2>5, <2>6 DEF Account
<1> QED BY <1>2, <1>4, <1>5
LEMMA ScanTimes ==
    ASSUME TypeOK, TimingInv, Scan
    PROVE  TimingInv'
<1> USE DEF TimingInv
<1>1. PICK S \in ListDueVMSchedules : due' = {Snapshot(s) : s \in S}
  BY DEF Scan
<1>2. /\ due = {} /\ sent = None /\ sent' = None /\ scanned' = now
      /\ UNCHANGED <<now, row, edit, stores, armings, fired, faults>>
  BY DEF Scan, rowvars
<1>3. S \subseteq Schedules /\ \A s \in S : Due(s)
  BY DEF ListDueVMSchedules
<1>4. \A s \in S : Snapshot(s).id = s /\ Snapshot(s).row = row[s]
  BY DEF Snapshot
<1>5. \A d \in due' : d.id \in S /\ d = Snapshot(d.id) /\ d.row = row[d.id]
  BY <1>1, <1>4
<1>6. TimesInv'
  BY <1>2, <1>3, <1>5 DEF TimesInv, Timely, Due
<1>7. DueInv'
  <2>1. \A d, e \in due' : d.id = e.id => d = e
    BY <1>5
  <2>2. ASSUME NEW d \in due'
        PROVE  d.row.next \in Times /\ d.row.next <= now /\ armings[d.id] > 0
    <3>1. Due(d.id) /\ d.id \in Schedules /\ d.row = row[d.id]
      BY <1>3, <1>5
    <3>2. row[d.id] \in Row /\ row[d.id].next # None /\ row[d.id].next <= now
      BY <3>1 DEF Due, TypeOK
    <3> QED BY <3>1, <3>2 DEF Row, Due, DueInv
  <2> QED BY <1>2, <2>1, <2>2 DEF DueInv
<1>8. AccountInv'
  <2> SUFFICES ASSUME NEW s \in Schedules PROVE Account(s)'
    BY DEF AccountInv
  <2>1. Account(s)
    BY DEF AccountInv
  <2>2. ~ Listed(s) /\ ~ InHand(s) /\ ~ InHand(s)'
    BY <1>2 DEF Listed, InHand
  <2>3. Listed(s)' => s \in S
    BY <1>5 DEF Listed
  <2>4. \A t : Allowed(s, t)' = Allowed(s, t)
    BY <1>2 DEF Allowed, FollowUps
  <2>5. Armed(s)' = Armed(s) /\ Later(row[s].next)' = Later(row[s].next)
    BY <1>2 DEF Armed, Later
  <2>6. ASSUME Listed(s)' PROVE fired[s] + 1 <= Allowed(s, now)
    <3>1. Due(s)
      BY <1>3, <2>3, <2>6
    <3>2. Armed(s) /\ Later(row[s].next) = now
      BY <3>1 DEF Due, Armed, Later
    <3> QED BY <2>1, <2>2, <3>2 DEF Account
  <2>7. Allowed(s, now)' = Allowed(s, now) /\ Allowed(s, scanned)' = Allowed(s, now)
    BY <1>2 DEF Allowed, FollowUps
  <2>8. Allowed(s, Later(row[s].next))' = Allowed(s, Later(row[s].next))
    BY <1>2 DEF Allowed, FollowUps, Later
  <2> QED BY <1>2, <2>1, <2>2, <2>5, <2>6, <2>7, <2>8 DEF Account
<1> QED BY <1>6, <1>7, <1>8

LEMMA SubmitTimes ==
    ASSUME TypeOK, TimingInv, SubmitDue
    PROVE  TimingInv'
<1> USE DEF TimingInv
<1>1. PICK d \in due, r \in Runs :
        /\ fired' = [fired EXCEPT ![d.id] = @ + 1]
        /\ sent' = [run |-> r, snap |-> d]
  BY DEF SubmitDue
<1>2. /\ sent = None
      /\ UNCHANGED <<now, row, edit, due, scanned, stores, armings, faults>>
  BY DEF SubmitDue, rowvars
<1>3. sent' # None /\ sent'.snap = d /\ d.id \in Schedules
  <2>1. d \in Entries
    BY DEF TypeOK
  <2>2. sent' \in Sends
    BY <1>1, <2>1 DEF Sends
  <2> QED BY <1>1, <2>1, <2>2, NoneAssumption DEF Entries
<1>4. TimesInv' /\ DueInv'
  BY <1>2 DEF TimesInv, DueInv, Timely
<1>5. AccountInv'
  <2> SUFFICES ASSUME NEW s \in Schedules PROVE Account(s)'
    BY DEF AccountInv
  <2>1. Account(s) /\ ~ InHand(s)
    BY <1>2 DEF AccountInv, InHand
  <2>2. /\ Allowed(s, now)' = Allowed(s, now) /\ Allowed(s, scanned)' = Allowed(s, scanned)
        /\ Allowed(s, Later(row[s].next))' = Allowed(s, Later(row[s].next))
        /\ Listed(s)' = Listed(s) /\ Armed(s)' = Armed(s)
    BY <1>2 DEF Allowed, FollowUps, Later, Listed, Armed
  <2>3. InHand(s)' <=> s = d.id
    BY <1>3 DEF InHand
  <2>4. CASE s = d.id
    <3>1. Listed(s) /\ armings[s] > 0
      BY <2>4 DEF Listed, DueInv
    <3>2. fired'[s] = fired[s] + 1
      BY <1>1, <2>4 DEF TypeOK
    <3>3. fired[s] + 1 <= Allowed(s, scanned)
      BY <2>1, <3>1 DEF Account
    <3>4. Allowed(s, scanned) <= Allowed(s, now)
      BY Numbers, FollowUpsGrow DEF Allowed
    <3>5. fired[s] \in Nat /\ Allowed(s, scanned) \in Nat /\ Allowed(s, now) \in Nat /\ armings[s] \in Nat
      BY Numbers
    <3>6. fired'[s] <= Allowed(s, now) /\ fired'[s] <= Allowed(s, scanned)
      BY <3>2, <3>3, <3>4, <3>5
    <3>7. InHand(s)' /\ Listed(s)'
      BY <2>2, <2>3, <2>4, <3>1
    <3>8. armings'[s] # 0
      BY <1>2, <3>1, <3>5
    <3> HIDE DEF TimingInv
    <3> QED BY <2>2, <3>6, <3>7, <3>8 DEF Account
  <2>5. CASE s # d.id
    <3>1. fired'[s] = fired[s]
      BY <1>1, <2>5 DEF TypeOK
    <3> QED BY <1>2, <2>1, <2>2, <2>3, <2>5, <3>1 DEF Account
  <2> QED BY <2>4, <2>5
<1> QED BY <1>4, <1>5

(* What the runner has left of its scan when it moves on.                  *)
LEMMA MovedOn ==
    ASSUME TypeOK, DueInv, sent # None, MoveOn
    PROVE  /\ sent.snap \in due /\ sent.snap \in Entries /\ sent.snap.id \in Schedules
           /\ due' \subseteq due /\ sent' = None
           /\ due' # {} => scanned' = scanned
           /\ scanned' \in 0..now
           /\ \A s \in Schedules :
                /\ ~ InHand(s)'
                /\ InHand(s) => s = sent.snap.id
                /\ Listed(s)' = (Listed(s) /\ ~ InHand(s))
<1>1. sent.snap \in due /\ sent.snap \in Entries /\ sent.snap.id \in Schedules
  BY DEF TypeOK, Entries
<1>2. /\ due' = due \ {sent.snap} /\ sent' = None
      /\ scanned' = IF due' = {} THEN 0 ELSE scanned
  BY DEF MoveOn
<1>3. scanned' \in 0..now
  BY <1>2, Numbers
<1>4. ASSUME NEW s \in Schedules
      PROVE  /\ ~ InHand(s)'
             /\ InHand(s) => s = sent.snap.id
             /\ Listed(s)' = (Listed(s) /\ ~ InHand(s))
  <2>1. ~ InHand(s)' /\ (InHand(s) <=> s = sent.snap.id)
    BY <1>2 DEF InHand
  <2>2. Listed(s)' <=> \E d \in due : d # sent.snap /\ d.id = s
    BY <1>2 DEF Listed
  <2>3. \A d \in due : d # sent.snap => d.id # sent.snap.id
    BY <1>1 DEF DueInv
  <2>4. Listed(s)' <=> (Listed(s) /\ ~ InHand(s))
    BY <2>1, <2>2, <2>3 DEF Listed
  <2> QED BY <2>1, <2>4 DEF Listed, InHand
<1> QED BY <1>1, <1>2, <1>3, <1>4
(* What RecordFire writes over a row: a one-off schedule is over, a        *)
(* repeating one has its next time after the scan.                         *)
LEMMA Recorded ==
    ASSUME TypeOK, TimingInv, RecordFire
    PROVE  LET d == sent.snap
               n == (scanned \div Period + 1) * Period
           IN  /\ row' \in [Schedules -> Row \cup {None}]
               /\ \A s \in Schedules : s # d.id => row'[s] = row[s]
               /\ row[d.id] = None => row'[d.id] = None
               /\ row[d.id] # None =>
                    /\ row'[d.id].last = "pending"
                    /\ row'[d.id].next \in {None, n}
                    /\ d.row.kind = "once" => row'[d.id].next = None
               /\ n \in Times /\ n >= Period /\ n > scanned
               /\ d.row.kind # "once" => "daily" \in Kinds /\ FollowUps(n) = FollowUps(scanned) + 1
<1> DEFINE d == sent.snap
           n == (scanned \div Period + 1) * Period
           w == [row[d.id] EXCEPT !.enabled = After(d).enabled, !.next = After(d).next,
                                  !.last = "pending"]
<1>0. d \in due /\ d \in Entries /\ d.id \in Schedules /\ d.row \in Row
  BY DEF RecordFire, TypeOK, Entries
<1>1. row' = IF row[d.id] = None THEN row ELSE [row EXCEPT ![d.id] = w]
  BY DEF RecordFire, UpdateVMScheduleFields
<1>2. n \in Times /\ n >= Period /\ n > scanned
  <2>1. n \in Nat /\ n > scanned /\ n >= Period /\ n <= scanned + Period
    BY Numbers, NextTime
  <2> HIDE DEF n
  <2> QED BY <2>1, Numbers, ScheduleAssumption DEF Times
<1>3. d.row.kind # "once" => "daily" \in Kinds /\ FollowUps(n) = FollowUps(scanned) + 1
  <2> SUFFICES ASSUME d.row.kind # "once"
               PROVE  "daily" \in Kinds /\ FollowUps(n) = FollowUps(scanned) + 1
    OBVIOUS
  <2>1. d.row.kind = "daily" /\ "daily" \in Kinds
    BY <1>0, ScheduleAssumption DEF Row
  <2>2. d.row.next \in Times /\ d.row.next <= scanned /\ Timely(d.row)
    BY <1>0 DEF TimingInv, TimesInv, DueInv
  <2>3. d.row.next # None /\ d.row.next \in Nat /\ scanned \in Nat /\ Period \in Nat
    BY <2>2, Numbers, ScheduleAssumption
  <2>4. scanned >= Period
    BY <2>1, <2>2, <2>3 DEF Timely
  <2> QED BY <2>1, <2>3, <2>4, NextTime
<1> HIDE DEF n
<1>4. After(d).next = IF d.row.kind = "once" THEN None ELSE n
  BY DEF After, NextRuns, n
<1>5. row[d.id] # None => After(d).enabled \in BOOLEAN
  BY <1>0 DEF After, TypeOK, Row
<1>6. ASSUME row[d.id] # None
      PROVE  w \in Row /\ w.last = "pending" /\ w.next = After(d).next
  <2>1. row[d.id] \in Row
    BY <1>0, <1>6 DEF TypeOK
  <2>2. After(d).next \in Times \cup {None} /\ "pending" \in Statuses
    BY <1>2, <1>4 DEF Statuses
  <2> QED BY <1>5, <1>6, <2>1, <2>2 DEF Row
<1> HIDE DEF w
<1>7. row' \in [Schedules -> Row \cup {None}]
  BY <1>0, <1>1, <1>6 DEF TypeOK
<1>8. /\ \A s \in Schedules : s # d.id => row'[s] = row[s]
      /\ row[d.id] = None => row'[d.id] = None
      /\ row[d.id] # None => row'[d.id] = w
  BY <1>0, <1>1 DEF TypeOK
<1> QED BY <1>2, <1>3, <1>4, <1>6, <1>7, <1>8 DEF n

LEMMA RecordTimes ==
    ASSUME TypeOK, TimingInv, RecordFire
    PROVE  TimingInv'
<1> DEFINE d == sent.snap
           n == (scanned \div Period + 1) * Period
<1>1. /\ MoveOn /\ sent # None
      /\ UNCHANGED <<now, edit, stores, armings, fired, faults>>
  BY DEF RecordFire
<1>2. /\ d \in due /\ d \in Entries /\ d.id \in Schedules
      /\ due' \subseteq due /\ sent' = None
      /\ due' # {} => scanned' = scanned
      /\ \A s \in Schedules : /\ ~ InHand(s)'
                              /\ InHand(s) => s = d.id
                              /\ Listed(s)' = (Listed(s) /\ ~ InHand(s))
  BY <1>1, MovedOn DEF TimingInv
<1>3. /\ \A s \in Schedules : s # d.id => row'[s] = row[s]
      /\ row[d.id] = None => row'[d.id] = None
      /\ row[d.id] # None =>
           /\ row'[d.id].next \in {None, n}
           /\ d.row.kind = "once" => row'[d.id].next = None
      /\ n \in Times /\ n >= Period /\ n > scanned
      /\ d.row.kind # "once" => FollowUps(n) = FollowUps(scanned) + 1
  BY Recorded
<1> HIDE DEF d, n
<1>4. TimesInv'
  <2>1. \A s \in Schedules : row'[s] # None => Timely(row'[s])
    BY <1>2, <1>3 DEF Timely, TimingInv, TimesInv
  <2> QED BY <1>1, <1>2, <2>1 DEF TimingInv, TimesInv, Timely
<1>5. DueInv'
  <2>1. armings[d.id] > 0
    BY <1>2 DEF TimingInv, DueInv
  <2>2. \A s \in Schedules : row'[s] # None /\ row'[s].next # None => armings[s] > 0
    BY <1>3, <2>1 DEF TimingInv, DueInv
  <2> QED BY <1>1, <1>2, <2>2 DEF TimingInv, DueInv
<1>6. AccountInv'
  <2> SUFFICES ASSUME NEW s \in Schedules PROVE Account(s)'
    BY DEF AccountInv
  <2>1. Account(s)
    BY DEF TimingInv, AccountInv
  <2>2. /\ \A t : Allowed(s, t) = armings[s] + faults + FollowUps(t)
        /\ Allowed(s, now)' = Allowed(s, now)
        /\ Allowed(s, Later(row[s].next))' = armings[s] + faults + FollowUps(Later(row'[s].next))
        /\ fired'[s] = fired[s] /\ armings'[s] = armings[s]
    BY <1>1 DEF Allowed, FollowUps, Later
  <2>3. ASSUME Listed(s)'
        PROVE  Listed(s) /\ ~ InHand(s) /\ Allowed(s, scanned)' = Allowed(s, scanned)
    <3>1. Listed(s) /\ ~ InHand(s)
      BY <1>2, <2>3
    <3>2. due' # {}
      BY <2>3 DEF Listed
    <3> QED BY <1>1, <1>2, <3>1, <3>2 DEF Allowed, FollowUps
  <2>4. ASSUME Armed(s)', ~ Listed(s)'
        PROVE  fired[s] + 1 <= armings[s] + faults + FollowUps(Later(row'[s].next))
    <3>1. CASE s = d.id
      <4>1. row[s] # None /\ row'[s].next = n /\ d.row.kind # "once"
        BY <1>2, <1>3, <2>4, <3>1 DEF Armed
      <4>2. InHand(s)
        BY <1>1, <3>1 DEF InHand, d
      <4>3. fired[s] <= armings[s] + faults + FollowUps(scanned)
        BY <2>1, <2>2, <4>2 DEF Account
      <4>4. FollowUps(scanned) + 1 <= FollowUps(Later(n))
        <5>1. n \in Nat /\ Later(n) \in Nat /\ n <= Later(n)
          BY <1>3, Numbers
        <5> QED BY <1>3, <4>1, <5>1, FollowUpsGrow
      <4>5. /\ fired[s] \in Nat /\ armings[s] \in Nat /\ faults \in Nat
            /\ FollowUps(scanned) \in Nat /\ FollowUps(Later(n)) \in Nat
        BY <1>3, Numbers, FollowUpsGrow
      <4> QED BY <4>1, <4>3, <4>4, <4>5
    <3>2. CASE s # d.id
      <4>1. row'[s] = row[s] /\ ~ InHand(s) /\ ~ Listed(s) /\ Armed(s)
        BY <1>2, <1>3, <2>4, <3>2 DEF Armed
      <4> QED BY <2>1, <2>2, <4>1 DEF Account
    <3> QED BY <3>1, <3>2
  <2> QED BY <1>2, <2>1, <2>2, <2>3, <2>4 DEF Account
<1> QED BY <1>4, <1>5, <1>6 DEF TimingInv

(* A run that is not recorded is paid for by the fault.                    *)
LEMMA FaultTimes ==
    ASSUME TypeOK, TimingInv, RecordFails \/ Crash
    PROVE  TimingInv'
<1>1. /\ faults' = faults + 1
      /\ UNCHANGED <<now, row, stores, armings, fired>>
      /\ \A e \in Editors : edit'[e] # None => edit'[e] = edit[e]
  BY DEF RecordFails, Crash, rowvars
<1>2. /\ due' \subseteq due /\ sent' = None
      /\ due' # {} => scanned' = scanned
      /\ \A s \in Schedules : /\ ~ InHand(s)'
                              /\ Listed(s)' => Listed(s) /\ ~ InHand(s)
  <2>1. CASE RecordFails
    BY <2>1, MovedOn DEF RecordFails, TimingInv
  <2>2. CASE Crash /\ ~ RecordFails
    BY <2>2 DEF Crash, InHand, Listed
  <2> QED BY <2>1, <2>2
<1>3. TimesInv' /\ DueInv'
  <2>1. TimesInv'
    BY <1>1, <1>2 DEF TimingInv, TimesInv, Timely
  <2> QED BY <1>1, <1>2, <2>1 DEF TimingInv, DueInv
<1>4. AccountInv'
  <2> SUFFICES ASSUME NEW s \in Schedules PROVE Account(s)'
    BY DEF AccountInv
  <2>1. Account(s)
    BY DEF TimingInv, AccountInv
  <2>2. /\ fired[s] \in Nat /\ armings[s] \in Nat /\ faults \in Nat
        /\ FollowUps(now) \in Nat /\ FollowUps(scanned) \in Nat
    BY Numbers, FollowUpsGrow
  <2>3. /\ Allowed(s, now) = armings[s] + faults + FollowUps(now)
        /\ Allowed(s, now)' = armings[s] + (faults + 1) + FollowUps(now)
        /\ Allowed(s, scanned) = armings[s] + faults + FollowUps(scanned)
        /\ fired'[s] = fired[s] /\ armings'[s] = armings[s]
    BY <1>1 DEF Allowed, FollowUps
  <2>4. ASSUME Listed(s)'
        PROVE  Listed(s) /\ ~ InHand(s) /\ Allowed(s, scanned)' = armings[s] + (faults + 1) + FollowUps(scanned)
    <3>1. Listed(s) /\ ~ InHand(s)
      BY <1>2, <2>4
    <3>2. due' # {}
      BY <2>4 DEF Listed
    <3> QED BY <1>1, <1>2, <3>1, <3>2 DEF Allowed, FollowUps
  <2>5. ASSUME Armed(s)' PROVE fired[s] + 1 <= Allowed(s, Later(row[s].next))'
    <3>1. row[s].next \in Times
      BY <1>1, <2>5 DEF Armed, TypeOK, Row
    <3>2. Later(row[s].next) \in Nat /\ now <= Later(row[s].next)
      BY <3>1, Numbers
    <3>3. /\ FollowUps(Later(row[s].next)) \in Nat
          /\ FollowUps(now) <= FollowUps(Later(row[s].next))
      BY <3>2, Numbers, FollowUpsGrow
    <3>4. Allowed(s, Later(row[s].next))' = armings[s] + (faults + 1) + FollowUps(Later(row[s].next))
      BY <1>1 DEF Allowed, FollowUps, Later
    <3>5. fired[s] <= Allowed(s, now)
      BY <2>1 DEF Account
    <3> QED BY <2>2, <2>3, <3>3, <3>4, <3>5
  <2>6. fired[s] <= Allowed(s, now)'
    BY <2>1, <2>2, <2>3 DEF Account
  <2>7. Listed(s)' => fired[s] + 1 <= Allowed(s, scanned)'
    <3> SUFFICES ASSUME Listed(s)' PROVE fired[s] + 1 <= Allowed(s, scanned)'
      OBVIOUS
    <3>1. fired[s] + 1 <= Allowed(s, scanned)
      BY <2>1, <2>4 DEF Account
    <3> QED BY <2>2, <2>3, <2>4, <3>1
  <2> QED BY <1>2, <2>1, <2>3, <2>5, <2>6, <2>7 DEF Account
<1> QED BY <1>3, <1>4 DEF TimingInv
-----------------------------------------------------------------------------
(* What tasks do to the rows: they write a status, or drop rows.           *)
LEMMA StatusWritten ==
    ASSUME TypeOK, NEW s \in Schedules, NEW st \in Statuses,
           UpdateVMScheduleFields(s, [row[s] EXCEPT !.last = st])
    PROVE  /\ row' \in [Schedules -> Row \cup {None}]
           /\ \A q \in Schedules : q # s => row'[q] = row[q]
           /\ row[s] = None => row'[s] = None
           /\ row[s] # None =>
                /\ row'[s].last = st /\ row'[s].kind = row[s].kind
                /\ row'[s].enabled = row[s].enabled /\ row'[s].next = row[s].next
<1> DEFINE w == [row[s] EXCEPT !.last = st]
<1>1. row' = IF row[s] = None THEN row ELSE [row EXCEPT ![s] = w]
  BY DEF UpdateVMScheduleFields
<1>2. row[s] # None =>
        /\ w \in Row /\ w.last = st /\ w.kind = row[s].kind
        /\ w.enabled = row[s].enabled /\ w.next = row[s].next
  BY DEF TypeOK, Row
<1> HIDE DEF w
<1> QED BY <1>1, <1>2 DEF TypeOK

(* The row of a task that executes, and where it moves.                    *)
LEMMA Executing ==
    ASSUME TypeOK, TaskInv, NEW r \in Runs, step[r] # "none"
    PROVE  /\ phase[r] = "executing" /\ fire[r] # None /\ fire[r] \in Fires
           /\ fire[r].id \in Schedules
  BY DEF TypeOK, TaskInv, Fires

LEMMA Forgotten ==
    ASSUME TypeOK, TaskInv, NEW r \in Runs, Forget(r)
    PROVE  /\ phase' = [phase EXCEPT ![r] = "settled"]
           /\ step' = [step EXCEPT ![r] = "none"]
           /\ fire' = [fire EXCEPT ![r] = None]
           /\ canceled' = canceled \ {r}
           /\ phase' \in [Runs -> Queue!Phases] /\ step' \in [Runs -> Steps]
           /\ fire' \in [Runs -> Fires \cup {None}]
           /\ canceled' \subseteq {q \in Runs : phase'[q] = "executing"}
           /\ TaskInv'
<1>1. /\ phase' = [phase EXCEPT ![r] = "settled"]
      /\ step' = [step EXCEPT ![r] = "none"]
      /\ fire' = [fire EXCEPT ![r] = None]
      /\ canceled' = canceled \ {r}
  BY DEF Forget, Queue!Settle, Queue!Move
<1>2. /\ phase' \in [Runs -> Queue!Phases] /\ step' \in [Runs -> Steps]
      /\ fire' \in [Runs -> Fires \cup {None}]
  BY <1>1 DEF TypeOK, Queue!Phases, Steps
<1>3. canceled' \subseteq {q \in Runs : phase'[q] = "executing"}
  BY <1>1 DEF TypeOK
<1>4. TaskInv'
  BY <1>1 DEF TaskInv, TypeOK
<1> QED BY <1>1, <1>2, <1>3, <1>4

LEMMA Went ==
    ASSUME TypeOK, TaskInv, NEW r \in Runs, NEW to \in Steps \ {"none"}, Go(r, to),
           step[r] # "none", UNCHANGED <<phase, fire, canceled>>
    PROVE  /\ step' = [step EXCEPT ![r] = to]
           /\ step' \in [Runs -> Steps]
           /\ TaskInv'
  BY DEF Go, TypeOK, TaskInv

-----------------------------------------------------------------------------
(* A request, a task or the end of one of them: TypeOK and CarriedInv.     *)
LEMMA RequestCarries ==
    ASSUME TypeOK, TimingInv, CarriedInv, Request
    PROVE  TypeOK' /\ CarriedInv'
<1> USE DEF CarriedInv
<1>1. ASSUME NEW e \in Editors, NEW s \in Schedules, BeginCreate(e, s) \/ BeginUpdate(e, s)
      PROVE  TypeOK' /\ CarriedInv'
  <2>1. \E f \in Entries : /\ edit' = [edit EXCEPT ![e] = f]
                           /\ stores[f.id] = 0 => f.row.last = ""
    <3>1. CASE BeginCreate(e, s)
      <4>1. PICK enabled \in BOOLEAN : \E r \in buildVMScheduleModel(enabled, "") :
               edit' = [edit EXCEPT ![e] = [id |-> s, row |-> [r EXCEPT !.enabled = TRUE]]]
        BY <3>1 DEF BeginCreate
      <4>2. PICK r \in buildVMScheduleModel(enabled, "") :
               edit' = [edit EXCEPT ![e] = [id |-> s, row |-> [r EXCEPT !.enabled = TRUE]]]
        BY <4>1
      <4>3. r \in Row /\ r.last = ""
        BY BuiltRow
      <4>4. [r EXCEPT !.enabled = TRUE] \in Row /\ [r EXCEPT !.enabled = TRUE].last = ""
        BY <4>3 DEF Row
      <4> DEFINE f == [id |-> s, row |-> [r EXCEPT !.enabled = TRUE]]
      <4>5. f \in Entries /\ f.row.last = ""
        BY <4>4 DEF Entries
      <4> QED BY <4>2, <4>5
    <3>2. CASE BeginUpdate(e, s)
      <4>1. PICK enabled \in BOOLEAN : \E r \in buildVMScheduleModel(enabled, row[s].last) :
               edit' = [edit EXCEPT ![e] = [id |-> s, row |-> r]]
        BY <3>2 DEF BeginUpdate
      <4>2. PICK r \in buildVMScheduleModel(enabled, row[s].last) :
               edit' = [edit EXCEPT ![e] = [id |-> s, row |-> r]]
        BY <4>1
      <4>3. r \in Row
        BY BuiltRow
      <4>4. stores[s] # 0
        BY <3>2 DEF BeginUpdate, FirstInv
      <4> DEFINE f == [id |-> s, row |-> r]
      <4>5. f \in Entries /\ f.id = s
        BY <4>3 DEF Entries
      <4> QED BY <4>2, <4>4, <4>5
    <3> QED BY <1>1, <3>1, <3>2
  <2>2. UNCHANGED <<now, row, vm, locked, due, scanned, sent, phase, fire, step, canceled,
                    stores, armings, fired, faults>>
    BY <1>1 DEF BeginCreate, BeginUpdate, runner, tasks, rowvars
  <2>3. PICK f \in Entries :
          /\ edit' = [edit EXCEPT ![e] = f]
          /\ stores[f.id] = 0 => f.row.last = ""
    BY <2>1
  <2>4. /\ edit' \in [Editors -> Entries \cup {None}]
        /\ \A g \in Editors : edit'[g] = IF g = e THEN f ELSE edit[g]
    <3>1. edit \in [Editors -> Entries \cup {None}]
      BY DEF TypeOK
    <3>2. edit' = [edit EXCEPT ![e] = f]
      BY <2>3
    <3> QED BY <3>1, <3>2
  <2>5. TypeOK'
    BY <2>2, <2>4 DEF TypeOK
  <2>6. FirstInv'
    BY <2>2, <2>3, <2>4 DEF FirstInv
  <2> QED BY <2>2, <2>5, <2>6 DEF TaskInv, RunningInv
<1>2. ASSUME NEW e \in Editors, Store(e) PROVE TypeOK' /\ CarriedInv'
  <2> DEFINE s == edit[e].id
             new == edit[e].row
  <2>1. /\ edit[e] # None /\ edit[e] \in Entries /\ s \in Schedules /\ new \in Row
        /\ stores[s] < MaxStores
        /\ row' = [row EXCEPT ![s] = new]
        /\ stores' = [stores EXCEPT ![s] = @ + 1]
        /\ armings' = IF new.next = None THEN armings ELSE [armings EXCEPT ![s] = @ + 1]
        /\ edit' = [edit EXCEPT ![e] = None]
        /\ UNCHANGED <<now, vm, locked, due, scanned, sent, phase, fire, step, canceled,
                       fired, faults>>
    BY <1>2 DEF Store, runner, tasks, TypeOK, Entries
  <2> HIDE DEF s, new
  <2>2. /\ stores[s] \in Nat /\ armings[s] \in Nat /\ armings[s] <= stores[s]
        /\ stores[s] + 1 \in 0..MaxStores /\ armings[s] + 1 \in 0..MaxStores
    <3>1. stores[s] \in Nat /\ armings[s] \in Nat /\ armings[s] <= stores[s]
      BY <2>1, Numbers DEF TimingInv, DueInv
    <3> QED BY <2>1, <3>1, ScheduleAssumption
  <2>3. /\ row' \in [Schedules -> Row \cup {None}]
        /\ stores' \in [Schedules -> 0..MaxStores] /\ armings' \in [Schedules -> 0..MaxStores]
        /\ edit' \in [Editors -> Entries \cup {None}]
    BY <2>1, <2>2 DEF TypeOK
  <2>4. TypeOK'
    BY <2>1, <2>3 DEF TypeOK
  <2>5. \A q \in Schedules :
          /\ q = s => stores'[q] = stores[q] + 1 /\ row'[q] = new
          /\ q # s => stores'[q] = stores[q] /\ row'[q] = row[q]
    BY <2>1 DEF TypeOK
  <2>6. FirstInv'
    <3>1. \A q \in Schedules : stores'[q] = 0 => stores[q] = 0 /\ q # s
      BY <2>2, <2>5
    <3>2. \A f \in Editors : edit'[f] # None => edit'[f] = edit[f]
      BY <2>1 DEF TypeOK
    <3> SUFFICES ASSUME NEW q \in Schedules, stores'[q] = 0
                 PROVE  /\ row'[q] = None
                        /\ \A g \in Editors : edit'[g] # None /\ edit'[g].id = q => edit'[g].row.last = ""
      BY DEF FirstInv
    <3>3. /\ row[q] = None /\ row'[q] = row[q]
          /\ \A g \in Editors : edit[g] # None /\ edit[g].id = q => edit[g].row.last = ""
      BY <2>5, <3>1 DEF FirstInv
    <3> QED BY <3>2, <3>3
  <2>7. RunningInv'
    <3> SUFFICES ASSUME NEW q \in Schedules, row'[q] # None, row'[q].last = "running",
                        stores'[q] <= 1, faults' = 0
                 PROVE  \E r \in Runs : fire[r] # None /\ fire[r].id = q /\ step[r] \in Marked
      BY <2>1 DEF RunningInv
    <3>1. CASE q = s
      <4>1. stores[s] = 0
        BY <2>2, <2>5, <3>1
      <4>2. new.last = ""
        BY <2>1, <4>1 DEF FirstInv, s, new
      <4> QED BY <2>5, <3>1, <4>2
    <3>2. CASE q # s
      BY <2>1, <2>5, <3>2 DEF RunningInv
    <3> QED BY <3>1, <3>2
  <2> QED BY <2>1, <2>4, <2>6, <2>7 DEF TaskInv
<1>3. ASSUME NEW s \in Schedules, DeleteVMSchedule(s) PROVE TypeOK' /\ CarriedInv'
  <2>1. /\ row' = [row EXCEPT ![s] = None]
        /\ UNCHANGED <<now, vm, locked, edit, due, scanned, sent, phase, fire, step, canceled,
                       stores, armings, fired, faults>>
    BY <1>3 DEF DeleteVMSchedule, runner, tasks
  <2>2. /\ row' \in [Schedules -> Row \cup {None}]
        /\ \A q \in Schedules : row'[q] # None => row'[q] = row[q]
        /\ \A q \in Schedules : row[q] = None => row'[q] = None
    BY <2>1 DEF TypeOK
  <2>3. TypeOK'
    BY <2>1, <2>2 DEF TypeOK
  <2>4. FirstInv'
    BY <2>1, <2>2 DEF FirstInv
  <2>5. RunningInv'
    BY <2>1, <2>2 DEF RunningInv
  <2> QED BY <2>1, <2>3, <2>4, <2>5 DEF TaskInv
<1>4. CASE UpsertVMLock
  BY <1>4 DEF UpsertVMLock, runner, tasks, rowvars, TypeOK, TaskInv, FirstInv, RunningInv
<1> QED BY <1>1, <1>2, <1>3, <1>4 DEF Request
LEMMA RunnerCarries ==
    ASSUME TypeOK, TimingInv, CarriedInv, Runner \/ Tick \/ Crash
    PROVE  TypeOK' /\ CarriedInv'
<1> USE DEF CarriedInv
<1>1. CASE Tick
  <2>1. /\ now' \in 0..Horizon /\ scanned' \in 0..now' /\ faults' \in 0..MaxFaults
        /\ UNCHANGED <<row, vm, locked, edit, due, sent, phase, fire, step, canceled,
                       stores, armings, fired, faults>>
    BY <1>1, ScheduleAssumption DEF Tick, runner, tasks, rowvars, TypeOK
  <2>2. TypeOK'
    BY <2>1 DEF TypeOK
  <2> QED BY <2>1, <2>2 DEF TaskInv, FirstInv, RunningInv
<1>2. CASE Scan
  <2>1. /\ due' \subseteq Entries /\ sent' = None /\ scanned' = now
        /\ UNCHANGED <<now, row, vm, locked, edit, phase, fire, step, canceled,
                       stores, armings, fired, faults>>
    <3>1. PICK S \in ListDueVMSchedules : due' = {Snapshot(s) : s \in S}
      BY <1>2 DEF Scan
    <3>2. \A s \in S : s \in Schedules /\ row[s] \in Row
      BY DEF ListDueVMSchedules, Due, TypeOK
    <3>3. \A s \in S : Snapshot(s) \in Entries
      BY <3>2 DEF Snapshot, Entries
    <3> QED BY <1>2, <3>1, <3>3 DEF Scan, tasks, rowvars
  <2>2. scanned' \in 0..now'
    BY <2>1, Numbers
  <2>3. TypeOK'
    BY <2>1, <2>2 DEF TypeOK
  <2> QED BY <2>1, <2>3 DEF TaskInv, FirstInv, RunningInv
<1>3. CASE SubmitDue
  <2>1. PICK d \in due, r \in Runs :
          /\ phase[r] = "new" /\ phase' = [phase EXCEPT ![r] = "waiting"]
          /\ fire' = [fire EXCEPT ![r] = [id |-> d.id, action |-> d.row.action]]
          /\ fired' = [fired EXCEPT ![d.id] = @ + 1]
          /\ sent' = [run |-> r, snap |-> d]
    BY <1>3 DEF SubmitDue, Queue!Accept, Queue!Move
  <2>2. UNCHANGED <<now, row, vm, locked, edit, due, scanned, step, canceled,
                    stores, armings, faults>>
    BY <1>3 DEF SubmitDue, rowvars
  <2> DEFINE f == [id |-> d.id, action |-> d.row.action]
  <2>3. d \in Entries /\ f \in Fires /\ f # None
    <3>1. d \in Entries
      BY DEF TypeOK
    <3>2. f \in Fires
      BY <3>1 DEF Entries, Row, Fires
    <3> QED BY <3>1, <3>2, NoneAssumption
  <2>4. fire' = [fire EXCEPT ![r] = f]
    BY <2>1
  <2> HIDE DEF f
  <2>5. /\ phase' \in [Runs -> Queue!Phases] /\ fire' \in [Runs -> Fires \cup {None}]
        /\ canceled' \subseteq {q \in Runs : phase'[q] = "executing"}
    BY <2>1, <2>2, <2>3, <2>4 DEF TypeOK, Queue!Phases
  <2>6. fired' \in [Schedules -> Nat] /\ sent' \in Sends /\ sent'.snap \in due'
    <3>1. d.id \in Schedules
      BY <2>3 DEF Entries
    <3>2. fired' \in [Schedules -> Nat]
      BY <2>1, <3>1 DEF TypeOK
    <3> QED BY <2>1, <2>2, <2>3, <3>2 DEF Sends
  <2>7. TypeOK'
    BY <2>2, <2>5, <2>6 DEF TypeOK
  <2>8. TaskInv'
    <3>1. step[r] = "none" /\ step'[r] = "none"
      BY <2>1, <2>2 DEF TaskInv
    <3>2. phase'[r] = "waiting" /\ fire'[r] = f
      BY <2>1, <2>4 DEF TypeOK
    <3>3. \A q \in Runs : q # r => phase'[q] = phase[q] /\ fire'[q] = fire[q]
      BY <2>1, <2>4 DEF TypeOK
    <3> QED BY <2>2, <2>3, <3>1, <3>2, <3>3 DEF TaskInv
  <2>9. RunningInv'
    <3>1. fire[r] = None
      BY <2>1 DEF TaskInv
    <3>2. \A q \in Runs : fire[q] # None => fire'[q] = fire[q]
      BY <2>4, <3>1 DEF TypeOK
    <3> QED BY <2>2, <3>2 DEF RunningInv
  <2> QED BY <2>2, <2>7, <2>8, <2>9 DEF FirstInv
<1>4. CASE RecordFire
  <2> DEFINE d == sent.snap
  <2>1. /\ d.id \in Schedules /\ due' \subseteq due /\ sent' = None /\ scanned' \in 0..now
    BY <1>4, MovedOn DEF RecordFire, TimingInv
  <2>2. /\ row' \in [Schedules -> Row \cup {None}]
        /\ \A s \in Schedules : s # d.id => row'[s] = row[s]
        /\ row[d.id] = None => row'[d.id] = None
        /\ row[d.id] # None => row'[d.id].last = "pending"
    BY <1>4, Recorded
  <2> HIDE DEF d
  <2>3. UNCHANGED <<now, vm, locked, edit, phase, fire, step, canceled,
                    stores, armings, fired, faults>>
    BY <1>4 DEF RecordFire, tasks
  <2>4. TypeOK'
    BY <2>1, <2>2, <2>3 DEF TypeOK
  <2>5. FirstInv'
    BY <2>1, <2>2, <2>3 DEF FirstInv
  <2>6. RunningInv'
    BY <2>1, <2>2, <2>3 DEF RunningInv
  <2> QED BY <2>3, <2>4, <2>5, <2>6 DEF TaskInv
<1>5. CASE RecordFails
  <2>1. /\ due' \subseteq due /\ sent' = None /\ scanned' \in 0..now
    BY <1>5, MovedOn DEF RecordFails, TimingInv
  <2>2. /\ faults' = faults + 1 /\ faults' \in 0..MaxFaults /\ faults' # 0
        /\ UNCHANGED <<now, row, vm, locked, edit, phase, fire, step, canceled,
                       stores, armings, fired>>
    BY <1>5, Numbers, ScheduleAssumption DEF RecordFails, tasks, rowvars
  <2>3. TypeOK'
    BY <2>1, <2>2 DEF TypeOK
  <2> QED BY <2>2, <2>3 DEF TaskInv, FirstInv, RunningInv
<1>6. CASE Crash
  <2>1. /\ faults' \in 0..MaxFaults /\ faults' # 0
        /\ edit' = [e \in Editors |-> None]
        /\ due' = {} /\ sent' = None /\ scanned' = 0
        /\ phase' = [r \in Runs |-> IF phase[r] = "new" THEN "new" ELSE "settled"]
        /\ step' = [r \in Runs |-> "none"]
        /\ fire' = [r \in Runs |-> None]
        /\ canceled' = {}
        /\ UNCHANGED <<now, vm, locked, row, stores, armings, fired>>
    BY <1>6, Numbers, ScheduleAssumption DEF Crash, rowvars
  <2>2. scanned' \in 0..now' /\ phase' \in [Runs -> Queue!Phases] /\ "none" \in Steps
    BY <2>1, Numbers DEF Queue!Phases, Steps
  <2>3. TypeOK'
    BY <2>1, <2>2 DEF TypeOK
  <2>4. TaskInv'
    BY <2>1 DEF TaskInv
  <2> QED BY <2>1, <2>3, <2>4 DEF FirstInv, RunningInv
<1> QED BY <1>1, <1>2, <1>3, <1>4, <1>5, <1>6 DEF Runner

LEMMA TaskCarries ==
    ASSUME TypeOK, CarriedInv, NEW r \in Runs, Start(r) \/ CancelTask(r) \/ Handler(r)
    PROVE  TypeOK' /\ CarriedInv' /\ KeepsTimes
<1> USE DEF CarriedInv
<1>0. UNCHANGED <<now, edit, due, scanned, sent, stores, armings, fired, faults>>
  BY DEF Start, CancelTask, Handler, ReturnCanceled, markScheduleRunning, Look, Act,
         DeleteVMSchedules, finishScheduleExecution, runner, rowvars
<1>1. CASE Start(r)
  <2>1. /\ phase[r] = "waiting" /\ phase' = [phase EXCEPT ![r] = "executing"]
        /\ step' = [step EXCEPT ![r] = "begin"]
        /\ UNCHANGED <<row, vm, locked, fire, canceled>>
    BY <1>1 DEF Start, Queue!Execute, Queue!Move, Go, rowvars
  <2>2. /\ phase' \in [Runs -> Queue!Phases] /\ step' \in [Runs -> Steps]
        /\ canceled' \subseteq {q \in Runs : phase'[q] = "executing"}
    BY <2>1 DEF TypeOK, Queue!Phases, Steps
  <2>3. TypeOK'
    BY <1>0, <2>1, <2>2 DEF TypeOK
  <2>4. TaskInv'
    BY <2>1 DEF TaskInv, TypeOK
  <2>5. RunningInv'
    <3>1. step[r] \notin Marked
      BY <2>1 DEF TaskInv, Marked
    <3>2. \A q \in Runs : step[q] \in Marked => step'[q] = step[q]
      BY <2>1, <3>1 DEF TypeOK
    <3> QED BY <1>0, <2>1, <3>2 DEF RunningInv
  <2> QED BY <1>0, <2>1, <2>3, <2>4, <2>5 DEF FirstInv, KeepsTimes
<1>2. CASE CancelTask(r)
  <2>1. UNCHANGED <<row, vm, locked, step>>
    BY <1>2 DEF CancelTask, rowvars
  <2>2. CASE phase[r] = "executing" /\ canceled' = canceled \cup {r} /\ UNCHANGED <<phase, fire>>
    BY <1>0, <2>1, <2>2 DEF TypeOK, TaskInv, FirstInv, RunningInv, KeepsTimes
  <2>3. CASE /\ phase[r] = "waiting" /\ phase' = [phase EXCEPT ![r] = "settled"]
             /\ fire' = [fire EXCEPT ![r] = None] /\ UNCHANGED canceled
    <3>1. /\ phase' \in [Runs -> Queue!Phases] /\ fire' \in [Runs -> Fires \cup {None}]
          /\ canceled' \subseteq {q \in Runs : phase'[q] = "executing"}
      BY <2>3 DEF TypeOK, Queue!Phases
    <3>2. TypeOK'
      BY <1>0, <2>1, <3>1 DEF TypeOK
    <3>3. TaskInv'
      BY <2>1, <2>3 DEF TaskInv, TypeOK
    <3>4. RunningInv'
      <4>1. step[r] \notin Marked
        BY <2>3 DEF TaskInv, Marked
      <4>2. \A q \in Runs : step[q] \in Marked => fire'[q] = fire[q]
        BY <2>3, <4>1 DEF TypeOK
      <4> QED BY <1>0, <2>1, <4>2 DEF RunningInv
    <3> QED BY <1>0, <2>1, <3>2, <3>3, <3>4 DEF FirstInv, KeepsTimes
  <2> QED BY <1>2, <2>2, <2>3 DEF CancelTask, Queue!Skip, Queue!Move
<1>3. CASE ReturnCanceled(r)
  <2>1. step[r] = "begin" /\ Forget(r) /\ UNCHANGED <<row, vm, locked>>
    BY <1>3 DEF ReturnCanceled, rowvars
  <2>2. TypeOK' /\ TaskInv'
    BY <1>0, <2>1, Forgotten DEF TypeOK
  <2>3. \A q \in Runs : step[q] \in Marked => fire'[q] = fire[q] /\ step'[q] = step[q]
    BY <2>1, Forgotten DEF Marked, TypeOK
  <2>4. RunningInv'
    BY <1>0, <2>1, <2>3 DEF RunningInv
  <2> QED BY <1>0, <2>1, <2>2, <2>4 DEF FirstInv, KeepsTimes
<1>4. CASE markScheduleRunning(r)
  <2> DEFINE s == fire[r].id
  <2>1. /\ step[r] = "begin" /\ Go(r, "look")
        /\ UpdateVMScheduleFields(s, [row[s] EXCEPT !.last = "running"])
        /\ UNCHANGED <<vm, locked, phase, fire, canceled>>
    BY <1>4 DEF markScheduleRunning, SetRow, MyRow
  <2>2. fire[r] # None /\ s \in Schedules
    BY <2>1, Executing
  <2>3. /\ row' \in [Schedules -> Row \cup {None}]
        /\ \A q \in Schedules : q # s => row'[q] = row[q]
        /\ row[s] = None => row'[s] = None
        /\ row[s] # None =>
             /\ row'[s].kind = row[s].kind
             /\ row'[s].enabled = row[s].enabled /\ row'[s].next = row[s].next
    BY <2>1, <2>2, StatusWritten DEF Statuses
  <2> HIDE DEF s
  <2>4. step' = [step EXCEPT ![r] = "look"] /\ step' \in [Runs -> Steps] /\ TaskInv'
    BY <2>1, Went DEF Steps
  <2>5. TypeOK'
    BY <1>0, <2>1, <2>3, <2>4 DEF TypeOK
  <2>6. FirstInv' /\ KeepsTimes
    BY <1>0, <2>2, <2>3 DEF FirstInv, KeepsTimes
  <2>7. RunningInv'
    <3>1. step'[r] \in Marked /\ fire'[r] # None /\ fire'[r].id = s
      BY <2>1, <2>2, <2>4 DEF Marked, TypeOK, s
    <3>2. \A q \in Runs : step[q] \in Marked => fire'[q] = fire[q] /\ step'[q] \in Marked
      BY <2>1, <2>4, <3>1 DEF TypeOK
    <3> QED BY <1>0, <2>3, <3>1, <3>2 DEF RunningInv
  <2> QED BY <2>4, <2>5, <2>6, <2>7
<1>5. CASE Look(r) \/ Act(r) \/ DeleteVMSchedules(r)
  <2>1. PICK to \in Marked \ {"look"} : Go(r, to)
    BY <1>5 DEF Look, Act, DeleteVMSchedules, Marked
  <2>2. /\ step[r] \in Marked /\ UNCHANGED <<phase, fire, canceled>>
        /\ vm' \in {"running", "shutoff", "absent"} /\ locked' \in BOOLEAN
        /\ row' = row \/ row' = [s \in Schedules |-> None]
    BY <1>5 DEF Look, Act, DeleteVMSchedules, Marked, rowvars, TypeOK
  <2>3. step' = [step EXCEPT ![r] = to] /\ step' \in [Runs -> Steps] /\ TaskInv'
    BY <2>1, <2>2, Went DEF Steps, Marked
  <2>4. row' \in [Schedules -> Row \cup {None}]
        /\ \A s \in Schedules : row'[s] # None => row'[s] = row[s]
    BY <2>2 DEF TypeOK
  <2>5. TypeOK'
    BY <1>0, <2>2, <2>3, <2>4 DEF TypeOK
  <2>6. FirstInv' /\ KeepsTimes
    BY <1>0, <2>2, <2>4 DEF FirstInv, KeepsTimes
  <2>7. RunningInv'
    <3>1. \A q \in Runs : step[q] \in Marked => step'[q] \in Marked
      BY <2>1, <2>3 DEF TypeOK
    <3> QED BY <1>0, <2>2, <2>4, <3>1 DEF RunningInv
  <2> QED BY <2>3, <2>5, <2>6, <2>7
<1>6. CASE finishScheduleExecution(r)
  <2> DEFINE s == fire[r].id
  <2>1. /\ step[r] \in {"success", "failed"} /\ Forget(r)
        /\ UpdateVMScheduleFields(s, [row[s] EXCEPT !.last = step[r]])
        /\ UNCHANGED <<vm, locked>>
    BY <1>6 DEF finishScheduleExecution, SetRow, MyRow
  <2>2. fire[r] # None /\ s \in Schedules
    BY <2>1, Executing
  <2>3. /\ row' \in [Schedules -> Row \cup {None}]
        /\ \A q \in Schedules : q # s => row'[q] = row[q]
        /\ row[s] = None => row'[s] = None
        /\ row[s] # None =>
             /\ row'[s].last = step[r] /\ row'[s].kind = row[s].kind
             /\ row'[s].enabled = row[s].enabled /\ row'[s].next = row[s].next
    BY <2>1, <2>2, StatusWritten DEF Statuses
  <2>4. TypeOK' /\ TaskInv'
    BY <1>0, <2>1, <2>3, Forgotten DEF TypeOK
  <2>5. FirstInv' /\ KeepsTimes
    BY <1>0, <2>2, <2>3 DEF FirstInv, KeepsTimes
  <2>6. RunningInv'
    <3> SUFFICES ASSUME NEW q \in Schedules, row'[q] # None, row'[q].last = "running",
                        stores[q] <= 1, faults = 0
                 PROVE  \E p \in Runs : fire'[p] # None /\ fire'[p].id = q /\ step'[p] \in Marked
      BY <1>0 DEF RunningInv
    <3>1. q # s
      BY <2>1, <2>3
    <3>2. PICK p \in Runs : fire[p] # None /\ fire[p].id = q /\ step[p] \in Marked
      BY <2>3, <3>1 DEF RunningInv
    <3>3. p # r
      BY <3>1, <3>2
    <3>4. fire'[p] = fire[p] /\ step'[p] = step[p]
      BY <2>1, <3>3, Forgotten DEF TypeOK
    <3> QED BY <3>2, <3>4
  <2> QED BY <2>4, <2>5, <2>6
<1> QED BY <1>1, <1>2, <1>3, <1>4, <1>5, <1>6 DEF Handler

-----------------------------------------------------------------------------
LEMMA ScheduleStep == ScheduleInv /\ [Next]_vars => ScheduleInv'
<1> SUFFICES ASSUME TypeOK, TimingInv, CarriedInv, [Next]_vars
             PROVE  TypeOK' /\ TimingInv' /\ CarriedInv'
  BY DEF ScheduleInv
<1>1. CASE UNCHANGED vars
  <2>1. UNCHANGED <<now, row, vm, locked, edit, due, scanned, sent, phase, fire, step, canceled,
                    stores, armings, fired, faults>>
    BY <1>1 DEF vars, runner, tasks, rowvars
  <2>2. TypeOK'
    BY <2>1 DEF TypeOK
  <2>3. CarriedInv'
    BY <2>1 DEF CarriedInv, TaskInv, FirstInv, RunningInv
  <2>4. KeepsTimes
    BY <2>1 DEF KeepsTimes
  <2> QED BY <2>2, <2>3, <2>4, TimesKept
<1>2. CASE Tick
  BY <1>2, TickTimes, RunnerCarries
<1>3. CASE Request
  <2>1. TimingInv'
    <3>1. CASE \E e \in Editors, s \in Schedules : BeginCreate(e, s) \/ BeginUpdate(e, s)
      BY <3>1, BeginTimes
    <3>2. CASE \E e \in Editors : Store(e)
      BY <3>2, StoreTimes
    <3>3. CASE (\E s \in Schedules : DeleteVMSchedule(s)) \/ UpsertVMLock
      <4>1. KeepsTimes
        BY <3>3 DEF DeleteVMSchedule, UpsertVMLock, runner, rowvars, KeepsTimes, TypeOK
      <4> QED BY <4>1, TimesKept
    <3> QED BY <1>3, <3>1, <3>2, <3>3 DEF Request
  <2> QED BY <1>3, <2>1, RequestCarries
<1>4. CASE Runner
  BY <1>4, ScanTimes, SubmitTimes, RecordTimes, FaultTimes, RunnerCarries DEF Runner
<1>5. CASE Crash
  BY <1>5, FaultTimes, RunnerCarries
<1>6. CASE \E r \in Runs : Start(r) \/ CancelTask(r) \/ Handler(r)
  BY <1>6, TaskCarries, TimesKept
<1> QED BY <1>1, <1>2, <1>3, <1>4, <1>5, <1>6 DEF Next

-----------------------------------------------------------------------------
(* The inductive invariant: a row that will be due has a run to its        *)
(* credit, wherever the row or its snapshot is, and a row marked running   *)
(* has a handler that has marked it and will write its outcome.            *)
THEOREM ScheduleInvariant == Spec => []ScheduleInv
<1>1. Init => ScheduleInv
  BY ScheduleInit
<1>2. ScheduleInv /\ [Next]_vars => ScheduleInv'
  BY ScheduleStep
<1> QED
  BY <1>1, <1>2, PTL DEF Spec

(* The rows, the runner's scan and the tasks have the shapes their types   *)
(* give them (model/vm_schedule.go).                                       *)
THEOREM ScheduleTypes == Spec => []TypeOK
<1>1. ScheduleInv => TypeOK
  BY DEF ScheduleInv
<1> QED
  BY <1>1, ScheduleInvariant, PTL

(* A schedule runs at most once for each time it was armed and each of its *)
(* later times, but for the crashes and the failed writes between a        *)
(* submission and its record (StartVMScheduleRunner).                      *)
THEOREM SchedulesFireAtMostDue == Spec => []FiredAtMostDue
<1>1. ScheduleInv => FiredAtMostDue
  <2> SUFFICES ASSUME ScheduleInv, NEW s \in Schedules PROVE fired[s] <= Owed(s)
    BY DEF FiredAtMostDue
  <2>1. /\ fired[s] <= armings[s] + faults + FollowUps(now)
        /\ armings[s] = 0 => fired[s] = 0
        /\ armings[s] \in Nat /\ faults \in Nat /\ fired[s] \in Nat
    BY Numbers DEF ScheduleInv, TimingInv, AccountInv, Account, Allowed
  <2> QED BY <2>1 DEF Owed
<1> QED
  BY <1>1, ScheduleInvariant, PTL

(* A status "running" is never left behind by a handler: one that wrote it *)
(* is still on its way to writing the outcome (RunVMScheduledAction).      *)
THEOREM RunningHasATask == Spec => []RunningIsCarriedOut
<1>1. ScheduleInv => RunningIsCarriedOut
  <2> SUFFICES ASSUME ScheduleInv, NEW s \in Schedules, row[s] # None, row[s].last = "running",
                      stores[s] <= 1, faults = 0
               PROVE  \E r \in Runs : fire[r] # None /\ fire[r].id = s /\ phase[r] = "executing"
    BY DEF RunningIsCarriedOut
  <2>1. PICK r \in Runs : fire[r] # None /\ fire[r].id = s /\ step[r] \in Marked
    BY DEF ScheduleInv, CarriedInv, RunningInv
  <2>2. phase[r] = "executing"
    BY <2>1 DEF ScheduleInv, CarriedInv, TaskInv, Marked
  <2> QED BY <2>1, <2>2
<1> QED
  BY <1>1, ScheduleInvariant, PTL

-----------------------------------------------------------------------------
(* ScheduleClock.                                                           *)

(* An instant is a day and a tick of that day.                             *)
LEMMA DayAndTick ==
    ASSUME NEW t \in Nat
    PROVE  /\ Day(t) \in Nat
           /\ t % DayLength \in TimesOfDay
           /\ t = Day(t) * DayLength + (t % DayLength)
  BY ClockAssumption, Z3 DEF Day, TimesOfDay

(* An instant is given by its day and its tick, ...                        *)
LEMMA OfDay ==
    ASSUME NEW d \in Nat, NEW a \in TimesOfDay
    PROVE  /\ d * DayLength + a \in Nat
           /\ Day(d * DayLength + a) = d
           /\ (d * DayLength + a) % DayLength = a
  <1>1. d * DayLength \in Nat
    BY ClockAssumption
  <1> QED
    BY <1>1, ClockAssumption, Z3 DEF Day, TimesOfDay

(* ... and those of a later day come later.                                *)
LEMMA LaterDay ==
    ASSUME NEW d \in Nat, NEW e \in Nat, NEW a \in TimesOfDay, NEW b \in TimesOfDay, d < e
    PROVE  d * DayLength + a < e * DayLength + b
  <1> DEFINE k == e - d
  <1>1. k \in Nat /\ k >= 1 /\ e = d + k
    OBVIOUS
  <1>2. e * DayLength = d * DayLength + k * DayLength
    BY <1>1, ClockAssumption
  <1>3. k * DayLength >= DayLength
    BY <1>1, ClockAssumption
  <1>4. d * DayLength \in Nat /\ k * DayLength \in Nat
    BY <1>1, ClockAssumption
  <1> HIDE DEF k
  <1> QED
    BY <1>2, <1>3, <1>4, ClockAssumption DEF TimesOfDay

(* The least of a few offsets exists.                                      *)
LEMMA LeastOffset ==
    ASSUME NEW S \in SUBSET (0..7), S # {}
    PROVE  Least(S) \in S /\ \A e \in S : Least(S) =< e
  <1>1. \E d \in S : \A e \in S : d =< e
    <2>1. PICK x \in S : TRUE
      OBVIOUS
    <2>2. x \in 0..7
      BY <2>1
    <2> QED
      BY <2>1, <2>2
  <1> QED
    BY <1>1 DEF Least

(* Every weekday comes within the seven days after today.                  *)
LEMMA WeekdayComes ==
    ASSUME NEW day \in Nat, NEW w \in Weekdays
    PROVE  \E d \in 1..7 : isoWeekday(day + d) = w
  <1> DEFINE gap == (w - 1) - (day % 7)
             d == IF gap > 0 THEN gap ELSE gap + 7
  <1>1. d \in 1..7
    BY DEF Weekdays
  <1>2. (day + d) % 7 = w - 1
    BY DEF Weekdays
  <1> QED
    BY <1>1, <1>2 DEF isoWeekday, Weekdays

(* The candidate of an offset: its day, its tick, and that it comes after  *)
(* the instant when the day does.                                          *)
LEMMA CandidateIs ==
    ASSUME NEW p, p.at \in TimesOfDay, NEW t \in Nat, NEW d \in Nat
    PROVE  /\ Candidate(p, t, d) \in Nat
           /\ Day(Candidate(p, t, d)) = Day(t) + d
           /\ Candidate(p, t, d) % DayLength = p.at
           /\ d > 0 => Candidate(p, t, d) > t
  <1>1. Day(t) \in Nat /\ t % DayLength \in TimesOfDay
        /\ t = Day(t) * DayLength + (t % DayLength)
    BY DayAndTick
  <1>2. Day(t) + d \in Nat
    BY <1>1
  <1>3. /\ Candidate(p, t, d) \in Nat
        /\ Day(Candidate(p, t, d)) = Day(t) + d
        /\ Candidate(p, t, d) % DayLength = p.at
    BY <1>2, OfDay DEF Candidate
  <1>4. ASSUME d > 0
        PROVE  Day(t) * DayLength + (t % DayLength) < (Day(t) + d) * DayLength + p.at
    <2>1. Day(t) < Day(t) + d
      BY <1>1, <1>4
    <2> QED
      BY <1>1, <1>2, <2>1, LaterDay
  <1>5. d > 0 => Candidate(p, t, d) > t
    BY <1>1, <1>3, <1>4 DEF Candidate
  <1> QED
    BY <1>3, <1>5

(* An instant at the plan's time of day, between now and a candidate, is   *)
(* the candidate of an earlier offset.                                     *)
LEMMA EarlierCandidate ==
    ASSUME NEW p, p.at \in TimesOfDay, NEW t \in Nat, NEW d \in Nat,
           NEW u \in Nat, t < u, u < Candidate(p, t, d), u % DayLength = p.at
    PROVE  \E e \in Nat : e < d /\ u = Candidate(p, t, e) /\ Day(u) = Day(t) + e
  <1>1. Day(t) \in Nat /\ t % DayLength \in TimesOfDay
        /\ t = Day(t) * DayLength + (t % DayLength)
    BY DayAndTick
  <1>2. Day(u) \in Nat /\ u = Day(u) * DayLength + p.at
    BY DayAndTick
  <1>3. ~ (Day(u) < Day(t))
    <2> SUFFICES ASSUME Day(u) < Day(t) PROVE FALSE
      OBVIOUS
    <2>1. u < t
      BY <1>1, <1>2, LaterDay
    <2> QED
      BY <2>1
  <1>4. ~ (Day(t) + d < Day(u))
    <2> SUFFICES ASSUME Day(t) + d < Day(u) PROVE FALSE
      OBVIOUS
    <2>1. Day(t) + d \in Nat
      BY <1>1
    <2>2. (Day(t) + d) * DayLength + p.at < Day(u) * DayLength + p.at
      BY <1>2, <2>1, LaterDay
    <2>3. Candidate(p, t, d) < u
      BY <1>2, <2>2 DEF Candidate
    <2>4. Candidate(p, t, d) \in Nat
      BY CandidateIs
    <2> QED
      BY <2>3, <2>4
  <1>5. Day(u) # Day(t) + d
    <2>1. Day(u) = Day(t) + d => u = Candidate(p, t, d)
      BY <1>2 DEF Candidate
    <2>2. Candidate(p, t, d) \in Nat
      BY CandidateIs
    <2> QED
      BY <2>1, <2>2
  <1> DEFINE e == Day(u) - Day(t)
  <1>6. e \in Nat /\ e < d /\ Day(u) = Day(t) + e
    BY <1>1, <1>2, <1>3, <1>4, <1>5
  <1>7. u = Candidate(p, t, e)
    BY <1>2, <1>6 DEF Candidate
  <1> QED
    BY <1>6, <1>7

-----------------------------------------------------------------------------
LEMMA DailyRuns ==
    ASSUME NEW p \in Plans(Nat), p.type = "daily", NEW t \in Nat
    PROVE  /\ calculateNextRun(p, t) # None
           /\ IsNextRun(p, t, calculateNextRun(p, t))
  <1>1. p.at \in TimesOfDay
    BY DEF Plans
  <1> DEFINE m == IF Candidate(p, t, 0) > t THEN 0 ELSE 1
             n == Candidate(p, t, m)
  <1>2. calculateNextRun(p, t) = n
    BY DEF calculateNextRun
  <1>3. n \in Nat /\ n % DayLength = p.at /\ n > t
    BY <1>1, CandidateIs
  <1>4. \A u \in (t + 1)..(n - 1) : ~ Asks(p, u)
    <2> SUFFICES ASSUME NEW u \in (t + 1)..(n - 1), Asks(p, u) PROVE FALSE
      OBVIOUS
    <2>1. u \in Nat /\ t < u /\ u < n /\ u % DayLength = p.at
      BY <1>3 DEF Asks
    <2>2. PICK e \in Nat : e < m /\ u = Candidate(p, t, e)
      BY <1>1, <2>1, EarlierCandidate
    <2> QED
      BY <2>1, <2>2
  <1>5. Asks(p, n)
    BY <1>3 DEF Asks
  <1> HIDE DEF n
  <1>6. IsNextRun(p, t, n)
    BY <1>3, <1>4, <1>5 DEF IsNextRun
  <1> QED
    BY <1>2, <1>3, <1>6, ClockAssumption

LEMMA WeeklyRuns ==
    ASSUME NEW p \in Plans(Nat), p.type = "weekly", NEW t \in Nat
    PROVE  /\ calculateNextRun(p, t) # None
           /\ IsNextRun(p, t, calculateNextRun(p, t))
  <1>1. p.at \in TimesOfDay /\ p.on \in (SUBSET Weekdays) \ {{}}
    BY DEF Plans
  <1>2. Day(t) \in Nat
    BY DayAndTick
  <1> DEFINE m == Least(Offsets(p, t))
             n == Candidate(p, t, m)
  <1>3. Offsets(p, t) # {}
    <2>1. PICK w \in Weekdays : w \in p.on
      <3>1. p.on \subseteq Weekdays /\ p.on # {}
        BY <1>1, Zenon
      <3> QED
        BY <3>1, Zenon
    <2>2. PICK d \in 1..7 : isoWeekday(Day(t) + d) = w
      BY <1>2, WeekdayComes
    <2>3. Candidate(p, t, d) > t
      <3>1. p.at \in TimesOfDay
        BY <1>1
      <3>2. d \in Nat /\ d > 0
        OBVIOUS
      <3> QED
        BY <3>1, <3>2, CandidateIs
    <2> QED
      BY <2>1, <2>2, <2>3 DEF Offsets
  <1>4. m \in Offsets(p, t) /\ \A e \in Offsets(p, t) : m =< e
    <2>1. Offsets(p, t) \in SUBSET (0..7)
      BY DEF Offsets
    <2> QED
      BY <1>3, <2>1, LeastOffset
  <1>5. m \in 0..7 /\ isoWeekday(Day(t) + m) \in p.on /\ n > t
    BY <1>4 DEF Offsets
  <1> HIDE DEF m
  <1>6. calculateNextRun(p, t) = n
    BY <1>3 DEF calculateNextRun, m
  <1>7. n \in Nat /\ n % DayLength = p.at /\ Day(n) = Day(t) + m
    <2>1. p.at \in TimesOfDay
      BY <1>1
    <2>2. m \in Nat
      BY <1>5
    <2> QED
      BY <2>1, <2>2, CandidateIs
  <1>8. \A u \in (t + 1)..(n - 1) : ~ Asks(p, u)
    <2> SUFFICES ASSUME NEW u \in (t + 1)..(n - 1), Asks(p, u) PROVE FALSE
      OBVIOUS
    <2>1. /\ u \in Nat /\ t < u /\ u < n
          /\ u % DayLength = p.at /\ isoWeekday(Day(u)) \in p.on
      BY <1>7 DEF Asks
    <2>2. PICK e \in Nat : e < m /\ u = Candidate(p, t, e) /\ Day(u) = Day(t) + e
      BY <1>1, <1>5, <2>1, EarlierCandidate
    <2>3. e \in Offsets(p, t)
      BY <1>5, <2>1, <2>2 DEF Offsets
    <2> QED
      BY <1>4, <1>5, <2>2, <2>3
  <1>9. Asks(p, n)
    BY <1>5, <1>7 DEF Asks
  <1> HIDE DEF n
  <1>10. IsNextRun(p, t, n)
    BY <1>5, <1>7, <1>8, <1>9 DEF IsNextRun
  <1> QED
    BY <1>6, <1>7, <1>10, ClockAssumption

(* calculateNextRun answers the first later time its plan asks for; only a *)
(* one-off plan whose time is past has none.                               *)
THEOREM NextRunIsFirst ==
    ASSUME NEW p \in Plans(Nat), NEW t \in Nat
    PROVE  /\ p.type # "once" => calculateNextRun(p, t) # None
           /\ calculateNextRun(p, t) # None => IsNextRun(p, t, calculateNextRun(p, t))
           /\ calculateNextRun(p, t) \in Nat \cup {None}
  <1>1. p.type \in {"once", "daily", "weekly"}
    BY DEF Plans
  <1>2. CASE p.type = "once"
    <2>1. p.runAt \in Nat
      BY <1>2 DEF Plans
    <2> QED
      BY <1>2, <2>1 DEF calculateNextRun, IsNextRun, Asks
  <1>3. CASE p.type = "daily"
    <2>1. calculateNextRun(p, t) \in Nat
      <3>1. p.at \in TimesOfDay
        BY <1>3 DEF Plans
      <3> QED
        BY <1>3, <3>1, CandidateIs DEF calculateNextRun
    <2> QED
      BY <1>3, <2>1, DailyRuns
  <1>4. CASE p.type = "weekly"
    <2>1. calculateNextRun(p, t) \in Nat \cup {None}
      <3>1. p.at \in TimesOfDay
        BY <1>4 DEF Plans
      <3>2. Offsets(p, t) # {} => Least(Offsets(p, t)) \in Nat
        <4>1. Offsets(p, t) \in SUBSET (0..7)
          BY DEF Offsets
        <4>2. Offsets(p, t) # {} => Least(Offsets(p, t)) \in Offsets(p, t)
          BY <4>1, LeastOffset
        <4> QED
          BY <4>1, <4>2
      <3> QED
        BY <1>4, <3>1, <3>2, CandidateIs DEF calculateNextRun
    <2> QED
      BY <1>4, <2>1, WeeklyRuns
  <1> QED
    BY <1>1, <1>2, <1>3, <1>4

(* In every state of every schedule, its next run is the first time after  *)
(* the instant it was computed for, and a repeating schedule has one.      *)
THEOREM NextIsAlwaysLeast == ClockSpec => [](ClockTypeOK /\ NextIsLeast /\ RepeatsForEver)
  <1>1. Instants \subseteq Nat
    BY ClockAssumption DEF Instants
  <1>2. Plans(Instants) \subseteq Plans(Nat)
    BY <1>1 DEF Plans
  <1> DEFINE Inv == ClockTypeOK /\ NextIsLeast /\ RepeatsForEver
  <1>3. InitClock => Inv
    BY <1>1, <1>2, NextRunIsFirst DEF InitClock, ClockTypeOK, NextIsLeast, RepeatsForEver
  <1>4. Inv /\ [ClockNext]_clockVars => Inv'
    <2> SUFFICES ASSUME Inv, [ClockNext]_clockVars PROVE Inv'
      OBVIOUS
    <2>1. CASE UNCHANGED clockVars
      BY <2>1 DEF clockVars, ClockTypeOK, NextIsLeast, RepeatsForEver
    <2>2. CASE ClockNext
      <3>1. PICK t \in Instants : queueDueVMSchedule(t)
        BY <2>2 DEF ClockNext
      <3>2. plan \in Plans(Nat) /\ t \in Nat
        BY <1>1, <1>2 DEF ClockTypeOK
      <3>3. plan' = plan /\ base' = t
        BY <3>1 DEF queueDueVMSchedule
      <3>4. CASE plan.type = "once"
        BY <3>1, <3>3, <3>4 DEF queueDueVMSchedule, ClockTypeOK, NextIsLeast, RepeatsForEver
      <3>5. CASE plan.type # "once"
        <4>1. next' = calculateNextRun(plan, t)
          BY <3>1, <3>5 DEF queueDueVMSchedule
        <4> QED
          BY <3>2, <3>3, <3>5, <4>1, NextRunIsFirst DEF ClockTypeOK, NextIsLeast, RepeatsForEver
      <3> QED
        BY <3>4, <3>5
    <2> QED
      BY <2>1, <2>2
  <1> QED
    BY <1>3, <1>4, PTL DEF ClockSpec

(* A repeating schedule never runs into the error of calculateNextRun.     *)
THEOREM RepeatingGoesOn == ClockSpec => []RepeatsForEver
  BY NextIsAlwaysLeast, PTL
=============================================================================
