----------------------------- MODULE TaskQueue -----------------------------
(***************************************************************************)
(* The in-memory task queue of server/taskqueue/queue.go: a store of task  *)
(* objects behind one mutex, a bounded channel of task ids, a fixed number *)
(* of workers, and the requests that submit, cancel and clear tasks.       *)
(*                                                                         *)
(* One action is one critical section, one channel operation or one        *)
(* unlocked read of the code.  Task ids are members of Tasks: nextTaskID   *)
(* hands each of them out at most once.                                    *)
(***************************************************************************)
EXTENDS Naturals, Sequences, FiniteSets

CONSTANTS
    Tasks,      \* task ids
    Workers,    \* the goroutines started by Start(workerCount)
    Users,      \* names of the callers
    Admins,     \* the callers whose role is admin
    CreatedBy,  \* the user who submits each task
    Unhandled,  \* tasks of a type no handler is registered for
    Capacity,   \* capacity of taskChan (100 in the code)
    NoTask      \* what a worker blocked on the channel has in hand

ASSUME CapacityAssumption == Capacity \in Nat \ {0}
ASSUME NoTaskAssumption == NoTask \notin Tasks
ASSUME WorkersAssumption == IsFiniteSet(Workers)
ASSUME CallersAssumption ==
    /\ Admins \subseteq Users
    /\ CreatedBy \in [Tasks -> Users]
    /\ Unhandled \subseteq Tasks

Finished == {"success", "failed", "canceled"}
Active == {"pending", "running"}
Statuses == Active \cup Finished \cup {"unborn"}

(* Program counter of processTask; "idle" is the receive of worker().      *)
Labels == {"idle", "received", "loaded", "checked", "registered", "marked",
           "dispatch", "executing", "progress", "returned", "settled",
           "closing"}

VARIABLES
    status,    \* Status field of each task object, "unborn" before Submit
    stored,    \* keys of taskStore
    submit,    \* where the Submit call of each task stands
    queue,     \* contents of taskChan
    pc, job,   \* per worker: program counter and task id in hand
    verdict,   \* per worker: status the returned handler earned
    cancelFn,  \* keys of taskCancelFn
    ctxDone,   \* tasks whose context has been canceled by a user
    asked,     \* history: tasks a cancel request was acknowledged for
    runs       \* history: how often the handler of each task was called

vars == <<status, stored, submit, queue, pc, job, verdict, cancelFn, ctxDone,
          asked, runs>>

-----------------------------------------------------------------------------
CanAccessTask(t, u) == u \in Admins \/ CreatedBy[t] = u

(* updateTask: the field changes only while the id is in the store.        *)
UpdateStatus(t, s) ==
    status' = IF t \in stored THEN [status EXCEPT ![t] = s] ELSE status

Goto(w, label) == pc' = [pc EXCEPT ![w] = label]

Release(w) ==
    /\ Goto(w, "idle")
    /\ job' = [job EXCEPT ![w] = NoTask]

Init ==
    /\ status = [t \in Tasks |-> "unborn"]
    /\ stored = {}
    /\ submit = [t \in Tasks |-> "none"]
    /\ queue = <<>>
    /\ pc = [w \in Workers |-> "idle"]
    /\ job = [w \in Workers |-> NoTask]
    /\ verdict = [w \in Workers |-> "success"]
    /\ cancelFn = {}
    /\ ctxDone = {}
    /\ asked = {}
    /\ runs = [t \in Tasks |-> 0]

-----------------------------------------------------------------------------
(* Submit: store the object, announce it, then block on the channel.       *)

SubmitStore(t) ==
    /\ submit[t] = "none"
    /\ submit' = [submit EXCEPT ![t] = "stored"]
    /\ status' = [status EXCEPT ![t] = "pending"]
    /\ stored' = stored \cup {t}
    /\ UNCHANGED <<queue, pc, job, verdict, cancelFn, ctxDone, asked, runs>>

(* Fault: the id is also sent to wake a worker at once.                    *)
SubmitAnnounceTwice(t) ==
    /\ submit[t] = "stored"
    /\ submit' = [submit EXCEPT ![t] = "announced"]
    /\ Len(queue) < Capacity
    /\ queue' = Append(queue, t)
    /\ UNCHANGED <<status, stored, pc, job, verdict, cancelFn, ctxDone, asked,
                   runs>>


SubmitAnnounce(t) ==
    /\ submit[t] = "stored"
    /\ submit' = [submit EXCEPT ![t] = "announced"]
    /\ UNCHANGED <<status, stored, queue, pc, job, verdict, cancelFn, ctxDone,
                   asked, runs>>

(* Fault: a send that gives up when the channel is full.                   *)
SubmitSendOrDrop(t) ==
    /\ submit[t] = "announced"
    /\ submit' = [submit EXCEPT ![t] = "sent"]
    /\ queue' = IF Len(queue) < Capacity THEN Append(queue, t) ELSE queue
    /\ UNCHANGED <<status, stored, pc, job, verdict, cancelFn, ctxDone, asked,
                   runs>>

(* Fault: a channel without a bound.                                       *)
SubmitSendUnbounded(t) ==
    /\ submit[t] = "announced"
    /\ submit' = [submit EXCEPT ![t] = "sent"]
    /\ queue' = Append(queue, t)
    /\ UNCHANGED <<status, stored, pc, job, verdict, cancelFn, ctxDone, asked,
                   runs>>


SubmitSend(t) ==
    /\ submit[t] = "announced"
    /\ Len(queue) < Capacity
    /\ submit' = [submit EXCEPT ![t] = "sent"]
    /\ queue' = Append(queue, t)
    /\ UNCHANGED <<status, stored, pc, job, verdict, cancelFn, ctxDone, asked,
                   runs>>

-----------------------------------------------------------------------------
(* worker and processTask.                                                 *)

Receive(w) ==
    /\ pc[w] = "idle"
    /\ queue # <<>>
    /\ job' = [job EXCEPT ![w] = Head(queue)]
    /\ queue' = Tail(queue)
    /\ Goto(w, "received")
    /\ UNCHANGED <<status, stored, submit, verdict, cancelFn, ctxDone, asked,
                   runs>>

LoadTask(w) ==
    /\ pc[w] = "received"
    /\ IF job[w] \in stored
       THEN Goto(w, "loaded") /\ UNCHANGED job
       ELSE Release(w)
    /\ UNCHANGED <<status, stored, submit, queue, verdict, cancelFn, ctxDone,
                   asked, runs>>

(* The read of task.Status at queue.go:238 holds no lock.                  *)
CheckCanceled(w) ==
    /\ pc[w] = "loaded"
    /\ IF status[job[w]] = "canceled"
       THEN Release(w)
       ELSE Goto(w, "checked") /\ UNCHANGED job
    /\ UNCHANGED <<status, stored, submit, queue, verdict, cancelFn, ctxDone,
                   asked, runs>>

StoreCancelFn(w) ==
    /\ pc[w] = "checked"
    /\ cancelFn' = cancelFn \cup {job[w]}
    /\ Goto(w, "registered")
    /\ UNCHANGED <<status, stored, submit, queue, job, verdict, ctxDone, asked,
                   runs>>

MarkRunning(w) ==
    /\ pc[w] = "registered"
    /\ UpdateStatus(job[w], "running")
    /\ Goto(w, "marked")
    /\ UNCHANGED <<stored, submit, queue, job, verdict, cancelFn, ctxDone,
                   asked, runs>>

BroadcastRunning(w) ==
    /\ pc[w] = "marked"
    /\ Goto(w, "dispatch")
    /\ UNCHANGED <<status, stored, submit, queue, job, verdict, cancelFn,
                   ctxDone, asked, runs>>

CallHandler(w) ==
    /\ pc[w] = "dispatch"
    /\ job[w] \notin Unhandled
    /\ Goto(w, "executing")
    /\ runs' = [runs EXCEPT ![job[w]] = @ + 1]
    /\ UNCHANGED <<status, stored, submit, queue, job, verdict, cancelFn,
                   ctxDone, asked>>

(* Fault: a task without a handler is dropped as it is.                    *)
NoHandlerDrops(w) ==
    /\ pc[w] = "dispatch"
    /\ job[w] \in Unhandled
    /\ Release(w)
    /\ UNCHANGED <<status, stored, submit, queue, verdict, cancelFn, ctxDone,
                   asked, runs>>

NoHandler(w) ==
    /\ pc[w] = "dispatch"
    /\ job[w] \in Unhandled
    /\ verdict' = [verdict EXCEPT ![w] = "failed"]
    /\ Goto(w, "returned")
    /\ UNCHANGED <<status, stored, submit, queue, job, cancelFn, ctxDone,
                   asked, runs>>

(* progressFn: the store is updated under the lock, the broadcast follows. *)
ReportProgress(w) ==
    /\ pc[w] = "executing"
    /\ Goto(w, "progress")
    /\ UNCHANGED <<status, stored, submit, queue, job, verdict, cancelFn,
                   ctxDone, asked, runs>>

BroadcastProgress(w) ==
    /\ pc[w] = "progress"
    /\ Goto(w, "executing")
    /\ UNCHANGED <<status, stored, submit, queue, job, verdict, cancelFn,
                   ctxDone, asked, runs>>

(* Fault: every error is taken for the cancel.                             *)
VerdictAnyError(t, err) == IF err = "nil" THEN "success" ELSE "canceled"

(* A handler returns nil, an error of its own, or ErrTaskCanceled, which   *)
(* handlers return only after they saw their context done.                 *)
Verdict(t, err) ==
    CASE err = "nil" -> "success"
      [] err # "nil" /\ (err = "ErrTaskCanceled" \/ t \in ctxDone) -> "canceled"
      [] OTHER -> "failed"

(* Fault: the cancel function goes before the status is written.           *)
HandlerReturnsUnregistered(w) ==
    /\ pc[w] = "executing"
    /\ verdict' = [verdict EXCEPT ![w] = Verdict(job[w], "nil")]
    /\ cancelFn' = cancelFn \ {job[w]}
    /\ Goto(w, "returned")
    /\ UNCHANGED <<status, stored, submit, queue, job, ctxDone, asked, runs>>


HandlerReturns(w) ==
    /\ pc[w] = "executing"
    /\ \E err \in {"nil", "error", "ErrTaskCanceled"} :
         /\ err = "ErrTaskCanceled" => job[w] \in ctxDone
         /\ verdict' = [verdict EXCEPT ![w] = Verdict(job[w], err)]
    /\ Goto(w, "returned")
    /\ UNCHANGED <<status, stored, submit, queue, job, cancelFn, ctxDone,
                   asked, runs>>

RecordVerdict(w) ==
    /\ pc[w] = "returned"
    /\ UpdateStatus(job[w], verdict[w])
    /\ Goto(w, "settled")
    /\ UNCHANGED <<stored, submit, queue, job, verdict, cancelFn, ctxDone,
                   asked, runs>>

BroadcastVerdict(w) ==
    /\ pc[w] = "settled"
    /\ Goto(w, "closing")
    /\ UNCHANGED <<status, stored, submit, queue, job, verdict, cancelFn,
                   ctxDone, asked, runs>>

(* The deferred cancel() and removeCancelFn.                               *)
RemoveCancelFn(w) ==
    /\ pc[w] = "closing"
    /\ cancelFn' = cancelFn \ {job[w]}
    /\ Release(w)
    /\ UNCHANGED <<status, stored, submit, queue, verdict, ctxDone, asked,
                   runs>>

-----------------------------------------------------------------------------
(* Requests and the hourly cleanup.                                        *)

(* Fault: whatever is not running is marked canceled.                      *)
CancelNotRunning(t) ==
    /\ status[t] # "running"
    /\ status' = [status EXCEPT ![t] = "canceled"]
    /\ UNCHANGED ctxDone


CancelPending(t) ==
    /\ status[t] = "pending"
    /\ status' = [status EXCEPT ![t] = "canceled"]
    /\ UNCHANGED ctxDone

(* Fault: a task that is over is not refused.                              *)
CancelNotPending(t) ==
    /\ status[t] # "pending"
    /\ UNCHANGED <<ctxDone, status>>

CancelRunning(t) ==
    /\ status[t] = "running"
    /\ ctxDone' = IF t \in cancelFn THEN ctxDone \cup {t} ELSE ctxDone
    /\ UNCHANGED status

CancelTaskForUser(t, u) ==
    /\ t \in stored
    /\ CanAccessTask(t, u)
    /\ CancelPending(t) \/ CancelRunning(t)
    /\ asked' = asked \cup {t}
    /\ UNCHANGED <<stored, submit, queue, pc, job, verdict, cancelFn, runs>>

ClearFinishedTasksForUser(u) ==
    /\ stored' = {t \in stored : ~ (CanAccessTask(t, u) /\ status[t] \in Finished)}
    /\ UNCHANGED <<status, submit, queue, pc, job, verdict, cancelFn, ctxDone,
                   asked, runs>>

(* Fault: the cleanup looks at the age only.                               *)
CleanupByAge ==
    /\ \E old \in SUBSET stored : stored' = stored \ old
    /\ UNCHANGED <<status, submit, queue, pc, job, verdict, cancelFn, ctxDone,
                   asked, runs>>

(* Clocks are abstracted: any set of tasks may be older than 24 hours.     *)
CleanupExpiredTasks ==
    /\ \E old \in SUBSET stored :
         stored' = {t \in stored : ~ (t \in old /\ status[t] \notin Active)}
    /\ UNCHANGED <<status, submit, queue, pc, job, verdict, cancelFn, ctxDone,
                   asked, runs>>

-----------------------------------------------------------------------------
SubmitStep(t) == SubmitStore(t) \/ SubmitAnnounce(t) \/ SubmitSend(t)

(* The steps of processTask up to the handler, and those after it.         *)
StartStep(w) ==
    \/ Receive(w) \/ LoadTask(w) \/ CheckCanceled(w) \/ StoreCancelFn(w)
    \/ MarkRunning(w) \/ BroadcastRunning(w) \/ CallHandler(w) \/ NoHandler(w)

FinishStep(w) ==
    HandlerReturns(w) \/ RecordVerdict(w) \/ BroadcastVerdict(w) \/ RemoveCancelFn(w)

ProgressStep(w) == ReportProgress(w) \/ BroadcastProgress(w)

Request ==
    \/ \E t \in Tasks, u \in Users : CancelTaskForUser(t, u)
    \/ \E u \in Users : ClearFinishedTasksForUser(u)
    \/ CleanupExpiredTasks

Next ==
    \/ \E t \in Tasks : SubmitStep(t)
    \/ \E w \in Workers : StartStep(w) \/ ProgressStep(w) \/ FinishStep(w)
    \/ Request

Spec == Init /\ [][Next]_vars

(* Goroutines of the process are scheduled, and every handler returns: a   *)
(* handler that is reporting progress may be interrupted by its return.    *)
Fairness ==
    /\ \A t \in Tasks : WF_vars(SubmitAnnounce(t)) /\ WF_vars(SubmitSend(t))
    /\ \A w \in Workers :
         /\ WF_vars(StartStep(w))
         /\ WF_vars(BroadcastProgress(w))
         /\ SF_vars(FinishStep(w))

FairSpec == Spec /\ Fairness

-----------------------------------------------------------------------------
(* Where the token of a task is.  A task not yet sent has its Submit call, *)
(* a sent one is in the channel or in the hands of a worker, or used up.   *)

InQueue(t) == \E i \in 1..Len(queue) : queue[i] = t
HeldBy(w, t) == job[w] = t

(* Labels at which processTask has not yet overwritten the status.         *)
BeforeMark == {"received", "loaded", "checked", "registered"}
(* Labels before the handler is called.                                    *)
BeforeCall == BeforeMark \cup {"marked", "dispatch"}
(* Labels between registration and removal of the cancel function.         *)
WithCancelFn == {"registered", "marked", "dispatch", "executing", "progress",
                 "returned", "settled", "closing"}
(* Labels from the call of the handler on.                                 *)
InHandler == {"executing", "progress"}
AfterCall == InHandler \cup {"returned", "settled", "closing"}

TypeOK ==
    /\ status \in [Tasks -> Statuses]
    /\ stored \subseteq Tasks
    /\ submit \in [Tasks -> {"none", "stored", "announced", "sent"}]
    /\ queue \in Seq(Tasks)
    /\ Len(queue) <= Capacity
    /\ pc \in [Workers -> Labels]
    /\ job \in [Workers -> Tasks \cup {NoTask}]
    /\ verdict \in [Workers -> Finished]
    /\ cancelFn \subseteq Tasks
    /\ ctxDone \subseteq Tasks
    /\ asked \subseteq Tasks
    /\ runs \in [Tasks -> Nat]

(* The handler of a submitted task (create, delete, migrate a machine) is  *)
(* called at most once, whichever workers, cancels and clears interleave.  *)
ExecutedAtMostOnce == \A t \in Tasks : runs[t] <= 1

(* CancelTaskForUser on a running task finds the cancel function: it is    *)
(* registered before the status says running and removed after it stops    *)
(* saying so (queue.go:245-255, 478-482 would else cancel nothing).        *)
RunningIsCancelable ==
    \A t \in Tasks : status[t] = "running" => t \in cancelFn

(* No submitted task is forgotten: one whose status is pending still has   *)
(* its Submit call, a place in the channel, or a worker about to start it. *)
PendingIsOnItsWay ==
    \A t \in Tasks : status[t] = "pending" =>
        \/ submit[t] \in {"stored", "announced"}
        \/ InQueue(t)
        \/ \E w \in Workers : HeldBy(w, t) /\ pc[w] \in BeforeMark

(* Clearing and the hourly cleanup remove only records whose task is over  *)
(* by its own status: a pending or running task is always in the store.    *)
ActiveIsStored ==
    \A t \in Tasks : status[t] \in Active => t \in stored

(* A task is reported canceled only if a caller asked for it.              *)
CanceledOnRequest ==
    \A t \in Tasks : status[t] = "canceled" => t \in asked

(* Once the handler was called, the first finished status is the last: no  *)
(* late cancel or worker step rewrites what the user was told.             *)
VerdictIsFinal ==
    [][\A t \in Tasks :
         status[t] \in Finished /\ status'[t] # status[t] =>
            status[t] = "canceled" /\ runs[t] = 0]_vars

(* Every submitted task is settled in the end.                             *)
EverySubmitSettles ==
    \A t \in Tasks : status[t] = "pending" ~> status[t] \in Finished

(* What the handbook says of the status (pending, running, then one of     *)
(* success, failed, canceled; handbook line 718): a finished status never  *)
(* changes.  The start of a task just canceled breaks it.                  *)
FinishedIsFinal ==
    [][\A t \in Tasks : status[t] \in Finished => status'[t] = status[t]]_vars

(* The refinement of the abstract promise: the phase a task is in, read    *)
(* off the channel, the workers and the Submit call.                       *)
Phase(t) ==
    IF submit[t] = "none" THEN "new"
    ELSE IF \E w \in Workers : HeldBy(w, t) /\ pc[w] \in InHandler THEN "executing"
    ELSE IF submit[t] # "sent" \/ InQueue(t)
            \/ \E w \in Workers : HeldBy(w, t) /\ pc[w] \in BeforeCall THEN "waiting"
    ELSE "settled"

Lifecycle == INSTANCE TaskLifecycle WITH
    Slots <- Cardinality(Workers),
    phase <- [t \in Tasks |-> Phase(t)]

(* The queue implements the promise: each submitted task is executed at    *)
(* most once, on at most as many workers as were started, and settled.     *)
ImplementsLifecycle == Lifecycle!Spec
=============================================================================
