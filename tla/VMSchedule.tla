----------------------------- MODULE VMSchedule -----------------------------
(***************************************************************************)
(* Scheduled actions of one virtual machine (service/vm/schedule.go and    *)
(* model/vm_schedule.go): the rows users write, the runner that scans them *)
(* every 30 s and submits what is due, and the task that acts on the       *)
(* machine.  The task queue is its promise, TaskLifecycle.  Time is        *)
(* counted in ticks; a repeating schedule is due at the multiples of       *)
(* Period.  The rows are in the database and outlive a crash; the runner,  *)
(* the requests and the queue do not.                                      *)
(***************************************************************************)
EXTENDS Naturals, FiniteSets, NoValue

CONSTANTS
    Schedules,   \* ids of schedule rows
    Editors,     \* concurrent requests that write a schedule
    Runs,        \* ids of tasks the runner may submit; a bound
    Slots,       \* workers of the queue
    Kinds,       \* subset of {"once", "daily"}
    Actions,     \* subset of {"start", "shutdown", "delete"}
    Period,      \* ticks between two runs of a repeating schedule
    Batch,       \* rows a scan takes (20 in the code)
    Horizon,     \* bound on the clock
    MaxStores,   \* bound on the writes of one schedule
    MaxFaults,   \* bound on crashes and failed database writes
    Locking      \* bound: whether users lock and unlock the machine

ASSUME ScheduleAssumption ==
    /\ Runs \subseteq Nat /\ IsFiniteSet(Runs)
    /\ Slots \in Nat /\ Horizon \in Nat /\ MaxStores \in Nat /\ MaxFaults \in Nat
    /\ Period \in Nat \ {0} /\ Batch \in Nat \ {0}
    /\ Kinds \subseteq {"once", "daily"}
    /\ Actions \subseteq {"start", "shutdown", "delete"}
    /\ Locking \in BOOLEAN
    /\ None \notin Nat

VARIABLES
    now,
    row,         \* vm_schedules
    vm,          \* what libvirt says of the machine
    locked,      \* the machine's row in vm_locks
    edit,        \* the row each request has built and not stored yet
    due,         \* what is left of the runner's scan: snapshots of rows
    scanned,     \* when it scanned
    sent,        \* the task it submitted for the row it is at
    phase,       \* the tasks, as the queue promises them
    fire,        \* params of each task
    step,        \* where its handler is
    canceled,    \* tasks canceled while they ran
    stores,      \* history: writes of each schedule by users
    armings,     \* history: those that left it enabled with a next run
    fired,       \* history: tasks submitted for each schedule
    faults       \* history: crashes and failed writes

rowvars == <<row, stores, armings>>
runner == <<due, scanned, sent>>
tasks == <<phase, fire, step, canceled>>
vars == <<now, vm, locked, edit, runner, tasks, rowvars, fired, faults>>

Queue == INSTANCE TaskLifecycle WITH Tasks <- Runs

Times == 0..(Horizon + Period)
Statuses == {"", "pending", "running", "success", "failed"}
Row == [kind : Kinds, action : Actions, enabled : BOOLEAN,
        next : Times \cup {None}, last : Statuses]
Steps == {"none", "begin", "look", "act", "clear", "success", "failed"}

(* What a request is about to store and what the runner has in hand.       *)
Entries == [id : Schedules, row : Row]
Fires == [id : Schedules, action : Actions]
Sends == [run : Runs, snap : Entries]

ASSUME NoneAssumption == None \notin Row \cup Entries \cup Fires \cup Sends

Init ==
    /\ now = 0
    /\ row = [s \in Schedules |-> None]
    /\ vm = "shutoff"
    /\ locked = FALSE
    /\ edit = [e \in Editors |-> None]
    /\ due = {} /\ scanned = 0 /\ sent = None
    /\ Queue!Init
    /\ fire = [r \in Runs |-> None]
    /\ step = [r \in Runs |-> "none"]
    /\ canceled = {}
    /\ stores = [s \in Schedules |-> 0]
    /\ armings = [s \in Schedules |-> 0]
    /\ fired = [s \in Schedules |-> 0]
    /\ faults = 0

Tick ==
    /\ now < Horizon
    /\ now' = now + 1
    /\ UNCHANGED <<vm, locked, edit, runner, tasks, rowvars, fired, faults>>

-----------------------------------------------------------------------------
(* Requests.  buildVMScheduleModel works on what the request read; the row *)
(* is written by a later statement.                                        *)

(* calculateNextRun, strictly after t: the requested time of a one-off     *)
(* schedule, the next multiple of Period of a repeating one.               *)
NextRuns(kind, t) ==
    IF kind = "once" THEN {n \in Times : n > t} ELSE {(t \div Period + 1) * Period}

buildVMScheduleModel(enabled, last) ==
    {r \in Row :
        /\ r.enabled = enabled /\ r.last = last
        /\ r.action = "delete" => r.kind = "once"
        /\ \E n \in NextRuns(r.kind, now) : r.next = IF enabled THEN n ELSE None}

(* A new schedule needs a machine that exists.  A schedule created         *)
(* disabled gets no next run but is stored enabled: gorm replaces the zero *)
(* value of a column declared default:true.                                *)
BeginCreate(e, s) ==
    /\ edit[e] = None
    /\ vm # "absent"
    /\ stores[s] = 0
    /\ ~ \E f \in Editors : edit[f] # None /\ edit[f].id = s
    /\ \E enabled \in BOOLEAN : \E r \in buildVMScheduleModel(enabled, "") :
         edit' = [edit EXCEPT ![e] = [id |-> s, row |-> [r EXCEPT !.enabled = TRUE]]]
    /\ UNCHANGED <<now, vm, locked, runner, tasks, rowvars, fired, faults>>

(* An update without an enabled field keeps the row's.  Bound: it changes  *)
(* when the schedule runs and not what it does.                            *)
BeginUpdate(e, s) ==
    /\ edit[e] = None
    /\ row[s] # None
    /\ \E enabled \in BOOLEAN :
         \E r \in buildVMScheduleModel(enabled, row[s].last) :
             /\ r.action = row[s].action
             /\ edit' = [edit EXCEPT ![e] = [id |-> s, row |-> r]]
    /\ UNCHANGED <<now, vm, locked, runner, tasks, rowvars, fired, faults>>

(* DB.Create, or the DB.Save of UpdateVMSchedule: an upsert of the whole   *)
(* row.                                                                    *)
Store(e) ==
    /\ edit[e] # None
    /\ LET s == edit[e].id IN
         /\ stores[s] < MaxStores
         /\ row' = [row EXCEPT ![s] = edit[e].row]
         /\ stores' = [stores EXCEPT ![s] = @ + 1]
         /\ armings' = IF edit[e].row.next = None THEN armings
                       ELSE [armings EXCEPT ![s] = @ + 1]
    /\ edit' = [edit EXCEPT ![e] = None]
    /\ UNCHANGED <<now, vm, locked, runner, tasks, fired, faults>>

DeleteVMSchedule(s) ==
    /\ row[s] # None
    /\ row' = [row EXCEPT ![s] = None]
    /\ UNCHANGED <<now, vm, locked, edit, runner, tasks, stores, armings, fired, faults>>

UpsertVMLock ==
    /\ Locking
    /\ vm # "absent"
    /\ locked' = ~ locked
    /\ UNCHANGED <<now, vm, edit, runner, tasks, rowvars, fired, faults>>

-----------------------------------------------------------------------------
(* The runner.                                                             *)

Due(s) == /\ row[s] # None /\ row[s].enabled
          /\ row[s].next # None /\ row[s].next <= now

Snapshot(s) == [id |-> s, row |-> row[s]]

(* The earliest rows, at most Batch of them.                               *)
ListDueVMSchedules ==
    {S \in SUBSET {s \in Schedules : Due(s)} :
        /\ S # {}
        /\ Cardinality(S) <= Batch
        /\ \A s \in Schedules \ S : Due(s) =>
             Cardinality(S) = Batch /\ \A d \in S : row[d].next <= row[s].next}

(* Fault: the loop around the ticker is missing.                           *)
ScanAtStartOnly ==
    /\ now = 0 /\ due = {} /\ sent = None
    /\ \E S \in ListDueVMSchedules : due' = {Snapshot(s) : s \in S}
    /\ scanned' = now
    /\ UNCHANGED <<now, vm, locked, edit, sent, tasks, rowvars, fired, faults>>

Scan ==
    /\ due = {} /\ sent = None
    /\ \E S \in ListDueVMSchedules : due' = {Snapshot(s) : s \in S}
    /\ scanned' = now
    /\ UNCHANGED <<now, vm, locked, edit, sent, tasks, rowvars, fired, faults>>

Current(d) == d \in due /\ \A e \in due : d.row.next <= e.row.next

NewRun(r) == phase[r] = "new" /\ \A q \in Runs : phase[q] = "new" => r <= q

(* queueDueVMSchedule submits what the snapshot says.                      *)
SubmitDue ==
    /\ sent = None
    /\ \E d \in due, r \in Runs :
         /\ Current(d) /\ NewRun(r)
         /\ Queue!Accept(r)
         /\ fire' = [fire EXCEPT ![r] = [id |-> d.id, action |-> d.row.action]]
         /\ fired' = [fired EXCEPT ![d.id] = @ + 1]
         /\ sent' = [run |-> r, snap |-> d]
    /\ UNCHANGED <<now, vm, locked, edit, due, scanned, step, canceled, rowvars, faults>>

(* UpdateVMScheduleFields: the columns named, if the row is still there.   *)
UpdateVMScheduleFields(s, r) ==
    row' = IF row[s] = None THEN row ELSE [row EXCEPT ![s] = r]

(* Fault: a schedule that has fired keeps its next run.                    *)
KeepsNextRun(d) == [enabled |-> row[d.id].enabled, next |-> row[d.id].next]

After(d) == IF d.row.kind = "once" THEN [enabled |-> FALSE, next |-> None]
            ELSE [enabled |-> row[d.id].enabled,
                  next |-> CHOOSE n \in NextRuns("daily", scanned) : TRUE]

MoveOn ==
    /\ due' = due \ {sent.snap} /\ sent' = None
    /\ scanned' = IF due' = {} THEN 0 ELSE scanned

RecordFire ==
    /\ sent # None
    /\ LET d == sent.snap IN
         UpdateVMScheduleFields(d.id,
             [row[d.id] EXCEPT !.enabled = After(d).enabled, !.next = After(d).next,
                               !.last = "pending"])
    /\ MoveOn
    /\ UNCHANGED <<now, vm, locked, edit, tasks, stores, armings, fired, faults>>

(* The error of the update is only logged.                                 *)
RecordFails ==
    /\ sent # None
    /\ faults < MaxFaults
    /\ faults' = faults + 1
    /\ MoveOn
    /\ UNCHANGED <<now, vm, locked, edit, tasks, rowvars, fired>>

-----------------------------------------------------------------------------
(* RunVMScheduledAction, on a worker of the queue.  Of a task that is over *)
(* nothing but that is remembered.                                         *)

Forget(r) ==
    /\ Queue!Settle(r)
    /\ step' = [step EXCEPT ![r] = "none"]
    /\ fire' = [fire EXCEPT ![r] = None]
    /\ canceled' = canceled \ {r}

MyRow(r) == row[fire[r].id]

SetRow(r, new) == UpdateVMScheduleFields(fire[r].id, new)

Go(r, to) == step' = [step EXCEPT ![r] = to]

Start(r) ==
    /\ Queue!Execute(r)
    /\ Go(r, "begin")
    /\ UNCHANGED <<now, vm, locked, edit, runner, fire, canceled, rowvars, fired, faults>>

CancelTask(r) ==
    /\ \/ /\ Queue!Skip(r) /\ fire' = [fire EXCEPT ![r] = None]
          /\ UNCHANGED canceled
       \/ /\ phase[r] = "executing" /\ canceled' = canceled \cup {r}
          /\ UNCHANGED <<phase, fire>>
    /\ UNCHANGED <<now, vm, locked, edit, runner, step, rowvars, fired, faults>>

ReturnCanceled(r) ==
    /\ step[r] = "begin"
    /\ r \in canceled
    /\ Forget(r)
    /\ UNCHANGED <<now, vm, locked, edit, runner, rowvars, fired, faults>>

markScheduleRunning(r) ==
    /\ step[r] = "begin"
    /\ r \notin canceled
    /\ SetRow(r, [MyRow(r) EXCEPT !.last = "running"])
    /\ Go(r, "look")
    /\ UNCHANGED <<now, vm, locked, edit, runner, phase, fire, canceled, stores, armings,
                   fired, faults>>

(* What executeScheduledVMAction decides before it acts.                   *)
Skips(a) == \/ a = "start" /\ vm = "running"
            \/ a = "shutdown" /\ vm = "shutoff"
            \/ a = "delete" /\ vm = "absent"

Refuses(a) == \/ a # "delete" /\ vm = "absent"
              \/ a = "delete" /\ vm # "absent" /\ locked

(* libvirt may also fail to answer.                                        *)
Look(r) ==
    /\ step[r] = "look"
    /\ LET a == fire[r].action IN
         \/ Go(r, "failed")
         \/ r \notin canceled /\ Skips(a) /\ Go(r, "success")
         \/ r \notin canceled /\ ~ Skips(a) /\ ~ Refuses(a) /\ Go(r, "act")
    /\ UNCHANGED <<now, vm, locked, edit, runner, phase, fire, canceled, rowvars, fired, faults>>

(* A shutdown is an order the guest may not follow; DeleteVM undefines the *)
(* machine and only then removes its schedules.                            *)
Act(r) ==
    /\ step[r] = "act"
    /\ \/ /\ fire[r].action = "start" /\ vm # "absent"
          /\ vm' = "running" /\ Go(r, "success")
       \/ /\ fire[r].action = "shutdown" /\ vm # "absent"
          /\ vm' \in {vm, "shutoff"} /\ Go(r, "success")
       \/ /\ fire[r].action = "delete"
          /\ vm' = "absent" /\ Go(r, "clear")
       \/ vm' = vm /\ Go(r, "failed")
    /\ UNCHANGED <<now, locked, edit, runner, phase, fire, canceled, rowvars, fired, faults>>

(* DeleteVM reports an error when any of its clean-ups failed; the lock is *)
(* then kept.                                                              *)
DeleteVMSchedules(r) ==
    /\ step[r] = "clear"
    /\ row' = [s \in Schedules |-> None]
    /\ \/ locked' = FALSE /\ Go(r, "success")
       \/ UNCHANGED locked /\ Go(r, "failed")
    /\ UNCHANGED <<now, vm, edit, runner, phase, fire, canceled, stores, armings, fired, faults>>

(* Fault: a failed action leaves the row as it is.                         *)
finishIfSuccess(r) ==
    /\ step[r] \in {"success", "failed"}
    /\ IF step[r] = "failed" THEN UNCHANGED row
       ELSE SetRow(r, [MyRow(r) EXCEPT !.last = step[r]])
    /\ Forget(r)
    /\ UNCHANGED <<now, vm, locked, edit, runner, stores, armings, fired, faults>>

finishScheduleExecution(r) ==
    /\ step[r] \in {"success", "failed"}
    /\ SetRow(r, [MyRow(r) EXCEPT !.last = step[r]])
    /\ Forget(r)
    /\ UNCHANGED <<now, vm, locked, edit, runner, stores, armings, fired, faults>>

-----------------------------------------------------------------------------
(* The process dies and is started again: requests, runner and tasks are   *)
(* gone, the rows are as they were last written.                           *)
Crash ==
    /\ faults < MaxFaults
    /\ faults' = faults + 1
    /\ edit' = [e \in Editors |-> None]
    /\ due' = {} /\ sent' = None /\ scanned' = 0
    /\ phase' = [r \in Runs |-> IF phase[r] = "new" THEN "new" ELSE "settled"]
    /\ step' = [r \in Runs |-> "none"]
    /\ fire' = [r \in Runs |-> None]
    /\ canceled' = {}
    /\ UNCHANGED <<now, vm, locked, rowvars, fired>>

Handler(r) ==
    \/ ReturnCanceled(r) \/ markScheduleRunning(r) \/ Look(r) \/ Act(r)
    \/ DeleteVMSchedules(r) \/ finishScheduleExecution(r)

Runner == Scan \/ SubmitDue \/ RecordFire \/ RecordFails

Request ==
    \/ \E e \in Editors, s \in Schedules : BeginCreate(e, s) \/ BeginUpdate(e, s)
    \/ \E e \in Editors : Store(e)
    \/ \E s \in Schedules : DeleteVMSchedule(s)
    \/ UpsertVMLock

Next ==
    \/ Tick \/ Request \/ Runner \/ Crash
    \/ \E r \in Runs : Start(r) \/ CancelTask(r) \/ Handler(r)

Spec == Init /\ [][Next]_vars

(* The runner's ticker and the workers keep running; a request is stored   *)
(* or not, the clock is not forced.                                        *)
FairSpec ==
    /\ Spec
    /\ WF_vars(Scan) /\ WF_vars(SubmitDue) /\ WF_vars(RecordFire)
    /\ \A r \in Runs : WF_vars(Handler(r)) /\ SF_vars(Start(r))

-----------------------------------------------------------------------------
TypeOK ==
    /\ now \in 0..Horizon
    /\ row \in [Schedules -> Row \cup {None}]
    /\ vm \in {"running", "shutoff", "absent"} /\ locked \in BOOLEAN
    /\ edit \in [Editors -> Entries \cup {None}]
    /\ due \subseteq Entries
    /\ scanned \in 0..now
    /\ sent \in Sends \cup {None} /\ (sent # None => sent.snap \in due)
    /\ phase \in [Runs -> Queue!Phases]
    /\ fire \in [Runs -> Fires \cup {None}]
    /\ step \in [Runs -> Steps]
    /\ canceled \subseteq {r \in Runs : phase[r] = "executing"}
    /\ stores \in [Schedules -> 0..MaxStores] /\ armings \in [Schedules -> 0..MaxStores]
    /\ fired \in [Schedules -> Nat] /\ faults \in 0..MaxFaults

(* How many of a repeating schedule's times up to t follow another one: a  *)
(* run at each of them was armed by the run before and not by a user.      *)
FollowUps(t) ==
    IF "daily" \in Kinds /\ t >= Period THEN (t \div Period) - 1 ELSE 0

(* A one-off schedule runs once for each time a user armed it, however the *)
(* scan, the edits and the deletions interleave; a crash or a failed write *)
(* between the submission and its record costs one more run.  A repeating  *)
(* one runs at most once for each of its times; each further arming, from  *)
(* a request that may have read the old row, adds one.                     *)
Owed(s) ==
    armings[s] + faults + (IF armings[s] > 0 THEN FollowUps(now) ELSE 0)

FiredAtMostDue == \A s \in Schedules : fired[s] <= Owed(s)

(* A row that says running names a schedule whose action is being carried  *)
(* out: every way out of RunVMScheduledAction after markScheduleRunning    *)
(* writes the outcome.  (Not so after an edit, which writes back the       *)
(* status it read, or after a crash.)                                      *)
RunningIsCarriedOut ==
    \A s \in Schedules :
        (row[s] # None /\ row[s].last = "running" /\ stores[s] <= 1 /\ faults = 0) =>
            \E r \in Runs : fire[r] # None /\ fire[r].id = s /\ phase[r] = "executing"

(* A schedule that is due does not wait for ever: it is submitted, or it   *)
(* is no longer due.                                                       *)
Exhausted == \A r \in Runs : phase[r] # "new"

DueIsHandled == \A s \in Schedules : Due(s) ~> (~ Due(s) \/ Exhausted)
=============================================================================
