-------------------------- MODULE TaskEventsProofs --------------------------
(***************************************************************************)
(* Theorems about TaskEvents for every number of tasks, workers, callers   *)
(* and clients and every size of channel and buffer.  A step of the        *)
(* composition is a step of the queue or leaves the queue alone, so the    *)
(* invariant of TaskQueueProofs holds here too; the rest follows a task    *)
(* from its last broadcast on.                                             *)
(***************************************************************************)
EXTENDS TaskEvents, TaskQueueProofs

Outcomes == {"success", "failed"}

(* No step will broadcast about t again: its Submit call is over, no queue *)
(* entry is left, its worker (if any) has announced the verdict, and a     *)
(* cancel finds neither a pending nor a running task.                      *)
Quiet(t) ==
    /\ submit[t] = "sent"
    /\ ~ Occurs(queue, t)
    /\ \A w \in Workers : job[w] = t => pc[w] = "closing"
    /\ t \in stored => status[t] \in Outcomes

(* The task ran to an outcome and its worker, if any, has announced it.    *)
Over(t) ==
    /\ t \in stored
    /\ status[t] \in Outcomes
    /\ \A w \in Workers : job[w] = t => pc[w] = "closing"

(* A worker about to announce its verdict announces what the store says.   *)
RecordedInv ==
    \A w \in Workers :
        pc[w] \in {"settled", "closing"} /\ job[w] \in stored =>
            status[job[w]] = verdict[w]

-----------------------------------------------------------------------------
(* The queue side of a step: quiet tasks stay quiet, and a task is over    *)
(* after the step only if it was before or its verdict was broadcast.      *)
QuietKept == \A t \in Tasks : Quiet(t) => Quiet(t)'

OverBefore(t) == Over(t) /\ status'[t] = status[t]

LEMMA WorkerMovesQuiet ==
    ASSUME QInv, RecordedInv, NEW w \in Workers, NEW l \in Labels,
           WorkerMoves(w, l),
           UNCHANGED <<status, stored>>,
           \A v \in Workers : v # w => verdict'[v] = verdict[v],
           l # "settled",
           l = "closing" => pc[w] = "settled" /\ UNCHANGED verdict,
           pc[w] = "closing" => l = "idle",
           l = "idle" => \/ pc[w] = "closing"
                         \/ job[w] \notin stored
                         \/ status[job[w]] = "canceled"
    PROVE  /\ RecordedInv'
           /\ QuietKept
           /\ \A t \in Tasks :
                Over(t)' => OverBefore(t) \/ (l = "closing" /\ t = job[w])
<1> USE NoTaskAssumption DEF QInv, TokenInv
<1>1. /\ job \in [Workers -> Tasks \cup {NoTask}]
      /\ pc \in [Workers -> Labels]
      /\ job[w] \in Tasks
  BY DEF TypeOK, IdleHasNoJob, WorkerMoves
<1>2. /\ UNCHANGED <<submit, queue>>
      /\ \A v \in Workers : v # w => job'[v] = job[v] /\ pc'[v] = pc[v]
      /\ pc'[w] = l
      /\ job'[w] = IF l = "idle" THEN NoTask ELSE job[w]
      /\ \A t : Occurs(queue, t)' <=> Occurs(queue, t)
  BY <1>1 DEF WorkerMoves, Occurs
<1>3. RecordedInv'
  <2> SUFFICES ASSUME NEW v \in Workers, pc'[v] \in {"settled", "closing"},
                      job'[v] \in stored
               PROVE  status[job'[v]] = verdict'[v]
    BY DEF RecordedInv
  <2> QED BY <1>2 DEF RecordedInv
<1>4. QuietKept
  <2> SUFFICES ASSUME NEW t \in Tasks, Quiet(t), NEW v \in Workers, job'[v] = t
               PROVE  pc'[v] = "closing"
    BY <1>2 DEF QuietKept, Quiet
  <2> QED BY <1>2 DEF Quiet
<1>5. ASSUME NEW t \in Tasks, Over(t)', ~ (l = "closing" /\ t = job[w])
      PROVE  OverBefore(t)
  <2>1. t # job[w] \/ pc[w] = "closing"
    BY <1>1, <1>2, <1>5 DEF Over, Outcomes
  <2>2. ASSUME NEW v \in Workers, job[v] = t PROVE pc[v] = "closing"
    BY <1>2, <1>5, <2>1, <2>2 DEF Over
  <2> QED BY <1>5, <2>2 DEF Over, OverBefore
<1> QED BY <1>3, <1>4, <1>5

LEMMA QueueStepKeeps ==
    ASSUME QInv, RecordedInv, Next
    PROVE  /\ RecordedInv'
           /\ QuietKept
           /\ \A t \in Tasks :
                Over(t)' => \/ OverBefore(t)
                            \/ \E w \in Workers : BroadcastVerdict(w) /\ job[w] = t
<1> USE NoTaskAssumption DEF QInv, TokenInv
<1> DEFINE Goal == /\ RecordedInv'
                   /\ QuietKept
                   /\ \A t \in Tasks :
                        Over(t)' => \/ OverBefore(t)
                                    \/ \E w \in Workers : BroadcastVerdict(w) /\ job[w] = t
<1>0. /\ job \in [Workers -> Tasks \cup {NoTask}]
      /\ pc \in [Workers -> Labels]
      /\ \A w \in Workers : pc[w] # "idle" => job[w] \in Tasks /\ submit[job[w]] = "sent"
      /\ status \in [Tasks -> Statuses]
      /\ verdict \in [Workers -> Finished]
      /\ submit \in [Tasks -> {"none", "stored", "announced", "sent"}]
  BY DEF TypeOK, IdleHasNoJob, SentOnce
<1>1. ASSUME NEW s \in Tasks, SubmitStore(s) PROVE Goal
  <2>1. /\ submit[s] = "none"
        /\ submit' = [submit EXCEPT ![s] = "stored"]
        /\ status' = [status EXCEPT ![s] = "pending"]
        /\ stored' = stored \cup {s}
        /\ UNCHANGED <<pc, job, verdict>>
        /\ \A t : Occurs(queue, t)' <=> Occurs(queue, t)
    BY <1>1 DEF SubmitStore, Occurs
  <2>2. RecordedInv'
    BY <1>0, <2>1 DEF RecordedInv
  <2>3. QuietKept
    BY <1>0, <2>1 DEF QuietKept, Quiet
  <2>4. \A t \in Tasks : Over(t)' => OverBefore(t)
    BY <1>0, <2>1 DEF Over, OverBefore, Outcomes
  <2> QED BY <2>2, <2>3, <2>4
<1>2. ASSUME NEW s \in Tasks, SubmitAnnounce(s) PROVE Goal
  <2>1. /\ submit[s] = "stored"
        /\ submit' = [submit EXCEPT ![s] = "announced"]
        /\ UNCHANGED <<status, stored, pc, job, verdict>>
        /\ \A t : Occurs(queue, t)' <=> Occurs(queue, t)
    BY <1>2 DEF SubmitAnnounce, Occurs
  <2> QED BY <1>0, <2>1 DEF RecordedInv, QuietKept, Quiet, Over, OverBefore
<1>3. ASSUME NEW s \in Tasks, SubmitSend(s) PROVE Goal
  <2>1. /\ submit[s] = "announced"
        /\ submit' = [submit EXCEPT ![s] = "sent"]
        /\ UNCHANGED <<status, stored, pc, job, verdict>>
        /\ queue \in Seq(Tasks) /\ queue' = Append(queue, s)
    BY <1>3 DEF SubmitSend, TypeOK
  <2>2. \A t : Occurs(queue', t) <=> Occurs(queue, t) \/ t = s
    BY <2>1, AppendOccurs
  <2> QED BY <1>0, <2>1, <2>2 DEF RecordedInv, QuietKept, Quiet, Over, OverBefore
<1>4. ASSUME NEW w \in Workers, Receive(w) PROVE Goal
  <2> DEFINE h == Head(queue)
  <2>1. /\ pc[w] = "idle" /\ queue # <<>> /\ queue \in Seq(Tasks)
        /\ queue' = Tail(queue)
        /\ job' = [job EXCEPT ![w] = h]
        /\ pc' = [pc EXCEPT ![w] = "received"]
        /\ UNCHANGED <<status, stored, submit, verdict>>
    BY <1>4 DEF Receive, Goto, TypeOK
  <2>2. \A t : Occurs(queue, t) <=> t = h \/ Occurs(queue', t)
    BY <2>1, TailOccurs
  <2>3. job[w] = NoTask
    BY <2>1 DEF IdleHasNoJob
  <2> HIDE DEF h
  <2>4. RecordedInv' /\ QuietKept
    BY <1>0, <2>1, <2>2 DEF RecordedInv, QuietKept, Quiet
  <2>5. \A t \in Tasks : Over(t)' => OverBefore(t)
    BY <1>0, <2>1, <2>3 DEF Over, OverBefore
  <2> QED BY <2>4, <2>5
<1>5. ASSUME NEW w \in Workers,
             \/ LoadTask(w) \/ CheckCanceled(w) \/ StoreCancelFn(w)
             \/ BroadcastRunning(w) \/ CallHandler(w) \/ NoHandler(w)
             \/ ProgressStep(w) \/ HandlerReturns(w) \/ BroadcastVerdict(w)
             \/ RemoveCancelFn(w)
      PROVE  Goal
  <2>1. PICK l \in Labels :
          /\ WorkerMoves(w, l)
          /\ UNCHANGED <<status, stored>>
          /\ \A v \in Workers : v # w => verdict'[v] = verdict[v]
          /\ l # "settled"
          /\ l = "closing" => BroadcastVerdict(w) /\ pc[w] = "settled" /\ UNCHANGED verdict
          /\ pc[w] = "closing" => l = "idle"
          /\ l = "idle" => \/ pc[w] = "closing"
                           \/ job[w] \notin stored
                           \/ status[job[w]] = "canceled"
    <3> DEFINE P(l) == /\ WorkerMoves(w, l)
                       /\ UNCHANGED <<status, stored>>
                       /\ \A v \in Workers : v # w => verdict'[v] = verdict[v]
                       /\ l # "settled"
                       /\ l = "closing" =>
                            BroadcastVerdict(w) /\ pc[w] = "settled" /\ UNCHANGED verdict
                       /\ pc[w] = "closing" => l = "idle"
                       /\ l = "idle" => \/ pc[w] = "closing"
                                        \/ job[w] \notin stored
                                        \/ status[job[w]] = "canceled"
    <3> USE DEF WorkerMoves, Release, Goto, AfterCall, InHandler
    <3>1. LoadTask(w) => P("loaded") \/ P("idle")
      BY DEF LoadTask
    <3>2. CheckCanceled(w) => P("checked") \/ P("idle")
      BY DEF CheckCanceled
    <3>3. StoreCancelFn(w) => P("registered")
      BY DEF StoreCancelFn
    <3>4. BroadcastRunning(w) => P("dispatch")
      BY DEF BroadcastRunning
    <3>5. CallHandler(w) => P("executing")
      BY DEF CallHandler
    <3>6. NoHandler(w) => P("returned")
      BY <1>0 DEF NoHandler
    <3>7. ProgressStep(w) => P("progress") \/ P("executing")
      BY DEF ProgressStep, ReportProgress, BroadcastProgress
    <3>8. HandlerReturns(w) => P("returned")
      BY <1>0 DEF HandlerReturns
    <3>9. BroadcastVerdict(w) => P("closing")
      BY DEF BroadcastVerdict
    <3>10. RemoveCancelFn(w) => P("idle")
      BY DEF RemoveCancelFn
    <3> HIDE DEF P
    <3>11. \E l \in Labels : P(l)
      BY <1>5, <3>1, <3>2, <3>3, <3>4, <3>5, <3>6, <3>7, <3>8, <3>9, <3>10 DEF Labels
    <3> QED BY <3>11 DEF P
  <2> QED BY <2>1, WorkerMovesQuiet
<1>6. ASSUME NEW w \in Workers, MarkRunning(w) PROVE Goal
  <2>1. /\ job[w] \in Tasks
        /\ pc[w] = "registered"
        /\ pc' = [pc EXCEPT ![w] = "marked"]
        /\ status' = IF job[w] \in stored
                     THEN [status EXCEPT ![job[w]] = "running"] ELSE status
        /\ UNCHANGED <<stored, submit, job, verdict>>
        /\ \A t : Occurs(queue, t)' <=> Occurs(queue, t)
    BY <1>0, <1>6 DEF MarkRunning, Goto, UpdateStatus, Occurs
  <2>2. \A v \in Workers : job[v] = job[w] => v = w
    BY <2>1 DEF OneHolder
  <2>3. RecordedInv'
    BY <1>0, <2>1, <2>2 DEF RecordedInv
  <2>4. QuietKept
    BY <1>0, <2>1 DEF QuietKept, Quiet
  <2>5. \A t \in Tasks : Over(t)' => OverBefore(t)
    BY <1>0, <2>1 DEF Over, OverBefore
  <2> QED BY <2>3, <2>4, <2>5
<1>7. ASSUME NEW w \in Workers, RecordVerdict(w) PROVE Goal
  <2>1. /\ job[w] \in Tasks
        /\ pc[w] = "returned"
        /\ pc' = [pc EXCEPT ![w] = "settled"]
        /\ status' = IF job[w] \in stored
                     THEN [status EXCEPT ![job[w]] = verdict[w]] ELSE status
        /\ UNCHANGED <<stored, submit, job, verdict>>
        /\ \A t : Occurs(queue, t)' <=> Occurs(queue, t)
    BY <1>0, <1>7 DEF RecordVerdict, Goto, UpdateStatus, Occurs
  <2>2. \A v \in Workers : job[v] = job[w] => v = w
    BY <2>1 DEF OneHolder
  <2>3. RecordedInv'
    BY <1>0, <2>1, <2>2 DEF RecordedInv
  <2>4. QuietKept
    BY <1>0, <2>1 DEF QuietKept, Quiet
  <2>5. \A t \in Tasks : Over(t)' => OverBefore(t)
    BY <1>0, <2>1 DEF Over, OverBefore
  <2> QED BY <2>3, <2>4, <2>5
<1>8. ASSUME NEW s \in Tasks, NEW u \in Users, CancelTaskForUser(s, u) PROVE Goal
  <2>1. /\ s \in stored
        /\ UNCHANGED <<stored, submit, pc, job, verdict>>
        /\ \/ /\ status[s] = "pending"
              /\ status' = [status EXCEPT ![s] = "canceled"]
           \/ status[s] = "running" /\ UNCHANGED status
        /\ \A t : Occurs(queue, t)' <=> Occurs(queue, t)
    BY <1>8 DEF CancelTaskForUser, CancelPending, CancelRunning, Occurs
  <2>2. RecordedInv'
    BY <1>0, <2>1 DEF RecordedInv, Finished
  <2>3. QuietKept
    BY <1>0, <2>1 DEF QuietKept, Quiet, Outcomes
  <2>4. \A t \in Tasks : Over(t)' => OverBefore(t)
    BY <1>0, <2>1 DEF Over, OverBefore, Outcomes
  <2> QED BY <2>2, <2>3, <2>4
<1>9. CASE CleanupExpiredTasks \/ \E u \in Users : ClearFinishedTasksForUser(u)
  <2>1. /\ stored' \subseteq stored
        /\ UNCHANGED <<status, submit, pc, job, verdict>>
        /\ \A t : Occurs(queue, t)' <=> Occurs(queue, t)
    BY <1>9 DEF CleanupExpiredTasks, ClearFinishedTasksForUser, Occurs
  <2> QED BY <2>1 DEF RecordedInv, QuietKept, Quiet, Over, OverBefore
<1> QED
  BY <1>1, <1>2, <1>3, <1>4, <1>5, <1>6, <1>7, <1>8, <1>9
  DEF Next, SubmitStep, StartStep, FinishStep, Request

-----------------------------------------------------------------------------
(* What is in a channel: whether it speaks of a task, whether it carries a *)
(* task's outcome, and whether nothing on a task follows its outcome.      *)
EventSet == [task : Tasks, status : Statuses]

Says(q, t) == \E i \in 1..Len(q) : q[i].task = t

Settles(q, t) == \E i \in 1..Len(q) : q[i].task = t /\ q[i].status \in Outcomes

LastWord(q) ==
    \A i, j \in 1..Len(q) :
        q[i].status \in Outcomes /\ i < j => q[j].task # q[i].task

LEMMA AppendEvent ==
    ASSUME NEW q \in Seq(EventSet), NEW t \in Tasks, NEW s \in Statuses
    PROVE  LET r == Append(q, Event(t, s)) IN
           /\ r \in Seq(EventSet)
           /\ Len(r) = Len(q) + 1
           /\ \A e : Occurs(r, e) <=> Occurs(q, e) \/ e = Event(t, s)
           /\ \A x \in Tasks : Says(r, x) <=> Says(q, x) \/ x = t
           /\ \A x \in Tasks :
                Settles(r, x) <=> Settles(q, x) \/ (x = t /\ s \in Outcomes)
           /\ LastWord(q) /\ ~ Settles(q, t) => LastWord(r)
<1> DEFINE e == Event(t, s)
           r == Append(q, e)
<1>1. e \in EventSet /\ e.task = t /\ e.status = s
  BY DEF Event, EventSet
<1> HIDE DEF e
<1>2. /\ r \in Seq(EventSet)
      /\ Len(r) = Len(q) + 1
      /\ Len(q) \in Nat
      /\ \A i \in 1..Len(q) : r[i] = q[i]
      /\ r[Len(q) + 1] = e
  BY <1>1
<1>3. \A x : Occurs(r, x) <=> Occurs(q, x) \/ x = e
  BY <1>1, AppendOccurs
<1>4. 1..Len(r) = (1..Len(q)) \cup {Len(q) + 1}
  BY <1>2
<1> HIDE DEF r
<1>5. \A x \in Tasks : Says(r, x) <=> Says(q, x) \/ x = t
  BY <1>1, <1>2, <1>4 DEF Says
<1>6. \A x \in Tasks : Settles(r, x) <=> Settles(q, x) \/ (x = t /\ s \in Outcomes)
  BY <1>1, <1>2, <1>4 DEF Settles
<1>7. ASSUME LastWord(q), ~ Settles(q, t) PROVE LastWord(r)
  <2> SUFFICES ASSUME NEW i \in 1..Len(r), NEW j \in 1..Len(r),
                      r[i].status \in Outcomes, i < j, r[j].task = r[i].task
               PROVE  FALSE
    BY DEF LastWord
  <2>1. i \in 1..Len(q) /\ r[i] = q[i]
    BY <1>2, <1>4
  <2>2. CASE j \in 1..Len(q)
    BY <1>2, <1>7, <2>1, <2>2 DEF LastWord
  <2>3. CASE j = Len(q) + 1
    BY <1>1, <1>2, <1>7, <2>1, <2>3 DEF Settles
  <2> QED BY <1>4, <2>2, <2>3
<1> QED
  BY <1>2, <1>3, <1>5, <1>6, <1>7 DEF r, e

LEMMA TailEvent ==
    ASSUME NEW q \in Seq(EventSet), q # <<>>
    PROVE  LET e == Head(q)
               r == Tail(q) IN
           /\ e \in EventSet
           /\ r \in Seq(EventSet)
           /\ Len(r) < Len(q)
           /\ \A x : Occurs(q, x) <=> x = e \/ Occurs(r, x)
           /\ \A x \in Tasks : Says(q, x) <=> x = e.task \/ Says(r, x)
           /\ \A x \in Tasks :
                Settles(q, x) <=> (x = e.task /\ e.status \in Outcomes) \/ Settles(r, x)
           /\ LastWord(q) =>
                LastWord(r) /\ (e.status \in Outcomes => ~ Says(r, e.task))
<1> DEFINE e == Head(q)
           r == Tail(q)
<1>1. /\ r \in Seq(EventSet)
      /\ Len(q) \in Nat \ {0}
      /\ Len(r) = Len(q) - 1
      /\ \A i \in 1..Len(r) : r[i] = q[i + 1]
      /\ e = q[1]
      /\ q[1] \in EventSet
  OBVIOUS
<1>2. /\ \A x : Occurs(q, x) <=> x = e \/ Occurs(r, x)
      /\ Len(r) < Len(q)
  BY TailOccurs
<1>3. /\ \A i \in 1..Len(r) : i + 1 \in 1..Len(q) /\ 1 < i + 1
      /\ \A i \in 1..Len(q) : i # 1 => i - 1 \in 1..Len(r) /\ (i - 1) + 1 = i
      /\ 1 \in 1..Len(q)
  BY <1>1
<1> HIDE DEF e, r
<1>4. \A i \in 1..Len(q) : i # 1 => i - 1 \in 1..Len(r) /\ r[i - 1] = q[i]
  BY <1>1, <1>3
<1>5. \A x \in Tasks : Says(q, x) <=> x = e.task \/ Says(r, x)
  <2>1. ASSUME NEW x \in Tasks, Says(q, x), x # e.task PROVE Says(r, x)
    BY <1>1, <1>4, <2>1 DEF Says
  <2>2. ASSUME NEW x \in Tasks, x = e.task \/ Says(r, x) PROVE Says(q, x)
    BY <1>1, <1>3, <2>2 DEF Says
  <2> QED BY <2>1, <2>2
<1>6. \A x \in Tasks :
        Settles(q, x) <=> (x = e.task /\ e.status \in Outcomes) \/ Settles(r, x)
  <2>1. ASSUME NEW x \in Tasks, Settles(q, x), ~ (x = e.task /\ e.status \in Outcomes)
        PROVE  Settles(r, x)
    BY <1>1, <1>4, <2>1 DEF Settles
  <2>2. ASSUME NEW x \in Tasks,
               (x = e.task /\ e.status \in Outcomes) \/ Settles(r, x)
        PROVE  Settles(q, x)
    BY <1>1, <1>3, <2>2 DEF Settles
  <2> QED BY <2>1, <2>2
<1>7. ASSUME LastWord(q) PROVE LastWord(r)
  <2> SUFFICES ASSUME NEW i \in 1..Len(r), NEW j \in 1..Len(r),
                      r[i].status \in Outcomes, i < j, r[j].task = r[i].task
               PROVE  FALSE
    BY DEF LastWord
  <2>1. /\ i + 1 \in 1..Len(q) /\ j + 1 \in 1..Len(q) /\ i + 1 < j + 1
        /\ r[i] = q[i + 1] /\ r[j] = q[j + 1]
    BY <1>1, <1>3
  <2> QED BY <1>7, <2>1 DEF LastWord
<1>8. ASSUME LastWord(q), e.status \in Outcomes PROVE ~ Says(r, e.task)
  BY <1>1, <1>3, <1>8 DEF LastWord, Says
<1> QED
  BY <1>1, <1>2, <1>5, <1>6, <1>7, <1>8 DEF r, e

-----------------------------------------------------------------------------
(* A client that was sent or will be sent the outcome of a task hears no   *)
(* more of it.                                                             *)
ToldInv ==
    \A c \in Clients, t \in Tasks :
        shown[c][t] \in Outcomes \/ Settles(chan[c], t) => Quiet(t)

(* A client that is yet to register missed all that was announced.         *)
MissedInv ==
    \A c \in Clients, t \in Tasks :
        c \notin registered \cup gone /\ submit[t] \in {"announced", "sent"} =>
            <<c, t>> \in missed

(* The true status of a task was sent to the client or is on its way.      *)
Heard(c, t) == shown[c][t] = status[t] \/ Occurs(chan[c], Event(t, status[t]))

HeardInv ==
    \A c \in registered, t \in Tasks :
        MaySee(c, t) /\ <<c, t>> \notin missed /\ Over(t) => Heard(c, t)

(* VerdictIsLastEvent in terms of what channels say.                       *)
LastInv ==
    \A c \in Clients :
        /\ LastWord(chan[c])
        /\ \A t \in Tasks : shown[c][t] \in Outcomes => ~ Says(chan[c], t)

ClientInv ==
    /\ EventsTypeOK
    /\ registered \cap gone = {}
    /\ LastInv
    /\ ToldInv
    /\ MissedInv
    /\ HeardInv

EInv == QInv /\ RecordedInv /\ ClientInv

LEMMA LastInvIsVerdictLast == LastInv <=> VerdictIsLastEvent
  BY DEF LastInv, VerdictIsLastEvent, LastWord, Says, Announces, Outcomes

-----------------------------------------------------------------------------
(* A step of the queue that broadcasts nothing.                            *)
NotAVerdict ==
    /\ Next
    /\ \A w \in Workers : ~ BroadcastVerdict(w)
    /\ \A t \in Tasks : submit'[t] \in {"announced", "sent"} =>
                           submit[t] \in {"announced", "sent"}

LEMMA QuietStepIsNoVerdict ==
    ASSUME TypeOK, QuietStep
    PROVE  NotAVerdict
<1>0. /\ pc \in [Workers -> Labels]
      /\ submit \in [Tasks -> {"none", "stored", "announced", "sent"}]
  BY DEF TypeOK
<1>1. ASSUME NEW t \in Tasks, SubmitStore(t) \/ SubmitSend(t) PROVE NotAVerdict
  <2>1. Next
    BY <1>1 DEF Next, SubmitStep
  <2>2. UNCHANGED pc /\ \A x \in Tasks : submit'[x] \in {"announced", "sent"} =>
                                           submit[x] \in {"announced", "sent"}
    BY <1>0, <1>1 DEF SubmitStore, SubmitSend
  <2> QED BY <1>0, <2>1, <2>2 DEF NotAVerdict, BroadcastVerdict, Goto
<1>2. ASSUME NEW w \in Workers,
             \/ Receive(w) \/ LoadTask(w) \/ CheckCanceled(w) \/ StoreCancelFn(w)
             \/ MarkRunning(w) \/ CallHandler(w) \/ NoHandler(w)
             \/ ReportProgress(w) \/ HandlerReturns(w) \/ RecordVerdict(w)
             \/ RemoveCancelFn(w)
      PROVE  NotAVerdict
  <2>1. Next
    BY <1>2 DEF Next, StartStep, ProgressStep, FinishStep
  <2>2. UNCHANGED submit /\ \E l \in Labels \ {"closing"} : pc' = [pc EXCEPT ![w] = l]
    BY <1>2
    DEF Receive, LoadTask, CheckCanceled, StoreCancelFn, MarkRunning, CallHandler,
        NoHandler, ReportProgress, HandlerReturns, RecordVerdict, RemoveCancelFn,
        Goto, Release, Labels
  <2>3. ASSUME NEW v \in Workers, BroadcastVerdict(v) PROVE FALSE
    BY <1>0, <2>2, <2>3 DEF BroadcastVerdict, Goto
  <2> QED BY <2>1, <2>2, <2>3 DEF NotAVerdict
<1>3. ASSUME NEW u \in Users, ClearFinishedTasksForUser(u) PROVE NotAVerdict
  <2>1. Next
    BY <1>3 DEF Next, Request
  <2>2. UNCHANGED <<pc, submit>>
    BY <1>3 DEF ClearFinishedTasksForUser
  <2> QED BY <1>0, <2>1, <2>2 DEF NotAVerdict, BroadcastVerdict, Goto
<1> QED BY <1>1, <1>2, <1>3 DEF QuietStep

(* A step that broadcasts status s of task t.                              *)
Tells(t, s) ==
    /\ Next
    /\ Broadcast(t, s)
    /\ ~ Quiet(t)
    /\ s \in Outcomes => Quiet(t)'
    /\ \A w \in Workers : BroadcastVerdict(w) => job[w] = t /\ verdict[w] = s
    /\ \A x \in Tasks : submit'[x] \in {"announced", "sent"} =>
                           submit[x] \in {"announced", "sent"} \/ x = t

LEMMA AnnouncementTells ==
    ASSUME QInv, RecordedInv,
           \/ \E t \in Tasks : AnnouncePending(t)
           \/ \E t \in Tasks, u \in Users : AnnounceCancel(t, u)
           \/ \E w \in Workers : AnnounceRunning(w) \/ AnnounceVerdict(w)
    PROVE  \E t \in Tasks, s \in Statuses : Tells(t, s)
<1> USE NoTaskAssumption DEF QInv, TokenInv
<1>0. /\ job \in [Workers -> Tasks \cup {NoTask}]
      /\ pc \in [Workers -> Labels]
      /\ \A w \in Workers : pc[w] # "idle" => job[w] \in Tasks /\ submit[job[w]] = "sent"
      /\ status \in [Tasks -> Statuses]
      /\ verdict \in [Workers -> Finished]
      /\ submit \in [Tasks -> {"none", "stored", "announced", "sent"}]
  BY DEF TypeOK, IdleHasNoJob, SentOnce
<1>1. ASSUME NEW t \in Tasks, AnnouncePending(t) PROVE Tells(t, "pending")
  <2>1. Next
    BY <1>1 DEF AnnouncePending, Next, SubmitStep
  <2>2. /\ submit[t] = "stored" /\ submit' = [submit EXCEPT ![t] = "announced"]
        /\ Broadcast(t, "pending")
        /\ UNCHANGED pc
    BY <1>1 DEF AnnouncePending, SubmitAnnounce
  <2>3. \A w \in Workers : ~ BroadcastVerdict(w)
    BY <1>0, <2>2 DEF BroadcastVerdict, Goto
  <2> QED BY <1>0, <2>1, <2>2, <2>3 DEF Tells, Quiet, Outcomes
<1>2. ASSUME NEW t \in Tasks, NEW u \in Users, AnnounceCancel(t, u)
      PROVE  \E s \in Statuses : Tells(t, s)
  <2>1. Next
    BY <1>2 DEF AnnounceCancel, Next, Request
  <2>2. PICK s \in {"canceled", "running"} : s = status'[t]
    BY <1>0, <1>2 DEF AnnounceCancel, CancelTaskForUser, CancelPending, CancelRunning
  <2>3. /\ t \in stored /\ status[t] \in {"pending", "running"}
        /\ Broadcast(t, s)
        /\ UNCHANGED <<pc, submit>>
    BY <1>2, <2>2 DEF AnnounceCancel, CancelTaskForUser, CancelPending, CancelRunning
  <2>4. \A w \in Workers : ~ BroadcastVerdict(w)
    BY <1>0, <2>3 DEF BroadcastVerdict, Goto
  <2> QED
    BY <1>0, <2>1, <2>3, <2>4 DEF Tells, Quiet, Outcomes, Statuses, Active, Finished
<1>3. ASSUME NEW w \in Workers, AnnounceRunning(w), NEW t \in Tasks, t = job[w]
      PROVE  Tells(t, "running")
  <2>1. Next
    BY <1>3 DEF AnnounceRunning, Next, StartStep, ProgressStep
  <2>2. /\ pc[w] \in {"marked", "progress"}
        /\ pc' = [pc EXCEPT ![w] = "dispatch"] \/ pc' = [pc EXCEPT ![w] = "executing"]
        /\ Broadcast(t, "running")
        /\ UNCHANGED submit
    BY <1>3 DEF AnnounceRunning, BroadcastRunning, BroadcastProgress, Goto
  <2>3. \A v \in Workers : ~ BroadcastVerdict(v)
    BY <1>0, <2>2 DEF BroadcastVerdict, Goto
  <2> QED BY <1>0, <1>3, <2>1, <2>2, <2>3 DEF Tells, Quiet, Outcomes
<1>4. ASSUME NEW w \in Workers, AnnounceVerdict(w), NEW t \in Tasks, t = job[w],
             NEW s \in Finished, s = verdict[w]
      PROVE  Tells(t, s)
  <2>1. Next
    BY <1>4 DEF AnnounceVerdict, Next, FinishStep
  <2>2. /\ pc[w] = "settled" /\ pc' = [pc EXCEPT ![w] = "closing"]
        /\ Broadcast(t, s)
        /\ UNCHANGED <<submit, status, stored, job>>
        /\ \A x : Occurs(queue, x)' <=> Occurs(queue, x)
    BY <1>4 DEF AnnounceVerdict, BroadcastVerdict, Goto, Occurs
  <2>3. submit[t] = "sent"
    BY <1>0, <1>4, <2>2
  <2>4. \A v \in Workers : BroadcastVerdict(v) => v = w
    BY <1>0, <2>2 DEF BroadcastVerdict, Goto
  <2>5. ASSUME s \in Outcomes PROVE Quiet(t)'
    <3>1. \A v \in Workers : job[v] = t => v = w
      BY <1>4 DEF OneHolder
    <3>2. t \in stored => status[t] = s
      BY <1>4, <2>2 DEF RecordedInv
    <3>3. ~ Occurs(queue, t)
      BY <1>4 DEF QueuedOrHeld
    <3> QED BY <1>0, <2>2, <2>3, <2>5, <3>1, <3>2, <3>3 DEF Quiet
  <2> QED BY <1>0, <1>4, <2>1, <2>2, <2>3, <2>4, <2>5 DEF Tells, Quiet
<1>5. ASSUME NEW w \in Workers, AnnounceRunning(w) \/ AnnounceVerdict(w)
      PROVE  job[w] \in Tasks
  BY <1>0, <1>5
  DEF AnnounceRunning, AnnounceVerdict, BroadcastRunning, BroadcastProgress, BroadcastVerdict
<1>6. ASSUME NEW w \in Workers, AnnounceRunning(w) \/ AnnounceVerdict(w)
      PROVE  \E t \in Tasks, s \in Statuses : Tells(t, s)
  <2>1. PICK t \in Tasks, s \in Finished : t = job[w] /\ s = verdict[w]
    BY <1>0, <1>5, <1>6
  <2> QED BY <1>3, <1>4, <1>6, <2>1 DEF Statuses, Active
<1> QED
  BY <1>1, <1>2, <1>6 DEF Statuses, Active

-----------------------------------------------------------------------------
LEMMA ClientInit == Init /\ InitEvents => EInv
<1> SUFFICES ASSUME Init, InitEvents PROVE EInv
  OBVIOUS
<1>1. QInv
  BY TokenInit, StatusInit DEF QInv
<1>2. RecordedInv
  BY DEF Init, RecordedInv
<1>3. EventsTypeOK
  BY ClientsAssumption DEF InitEvents, EventsTypeOK, Statuses
<1>4. registered \cap gone = {} /\ LastInv
  BY DEF InitEvents, LastInv, LastWord, Says, Outcomes
<1>5. ToldInv /\ MissedInv /\ HeardInv
  BY DEF Init, InitEvents, ToldInv, MissedInv, HeardInv, Settles, Outcomes
<1> QED BY <1>1, <1>2, <1>3, <1>4, <1>5 DEF EInv, ClientInv

(* A step of the queue without an event keeps what clients were told true. *)
LEMMA QuietStepKeeps ==
    ASSUME EInv, NotAVerdict, UNCHANGED evars
    PROVE  ClientInv'
<1> USE DEF EInv, ClientInv, NotAVerdict, evars
<1>1. QuietKept /\ \A t \in Tasks : Over(t)' => OverBefore(t)
  BY QueueStepKeeps
<1>2. EventsTypeOK' /\ (registered \cap gone = {})' /\ LastInv'
  BY DEF EventsTypeOK, LastInv, LastWord, Says
<1>3. ToldInv'
  BY <1>1 DEF ToldInv, QuietKept, Settles
<1>4. MissedInv'
  BY DEF MissedInv
<1>5. HeardInv'
  <2> SUFFICES ASSUME NEW c \in registered, NEW t \in Tasks, MaySee(c, t)',
                      <<c, t>> \notin missed, Over(t)'
               PROVE  Heard(c, t)'
    BY DEF HeardInv
  <2>1. Over(t) /\ status'[t] = status[t]
    BY <1>1 DEF OverBefore
  <2>2. MaySee(c, t)
    BY <2>1 DEF MaySee, Over
  <2> QED BY <2>1, <2>2 DEF HeardInv, Heard, Occurs
<1> QED BY <1>2, <1>3, <1>4, <1>5

(* A broadcast: nothing was said of the task that could be contradicted.   *)
LEMMA BroadcastKeeps ==
    ASSUME EInv, NEW t \in Tasks, NEW s \in Statuses, Tells(t, s)
    PROVE  ClientInv'
<1> USE DEF EInv, ClientInv
<1>1. /\ QuietKept
      /\ \A x \in Tasks : Over(x)' => OverBefore(x) \/ (x = t /\ s = status'[t])
  <2>1. /\ QuietKept
        /\ \A x \in Tasks :
             Over(x)' => \/ OverBefore(x)
                         \/ \E w \in Workers : BroadcastVerdict(w) /\ job[w] = x
    BY QueueStepKeeps DEF Tells
  <2>2. ASSUME NEW x \in Tasks, Over(x)',
               NEW w \in Workers, BroadcastVerdict(w), job[w] = x
        PROVE  x = t /\ s = status'[t]
    BY <2>2 DEF Tells, RecordedInv, BroadcastVerdict, Over
  <2> QED BY <2>1, <2>2
<1>2. /\ chan \in [Clients -> Seq(EventSet)]
      /\ \A c \in Clients : Len(chan[c]) \in Nat /\ Len(chan[c]) <= BufferSize
  <2>1. chan \in [Clients -> Seq(EventSet)]
    BY DEF EventsTypeOK, EventSet
  <2>2. \A c \in Clients : Len(chan[c]) <= BufferSize
    BY DEF EventsTypeOK
  <2>3. ASSUME NEW c \in Clients PROVE Len(chan[c]) \in Nat
    BY <2>1
  <2> QED BY <2>1, <2>2, <2>3
<1>3. /\ UNCHANGED <<registered, gone, shown>>
      /\ missed' = missed \cup {<<c, t>> : c \in {d \in Clients : ~ Receives(d)}}
      /\ DOMAIN chan' = Clients
      /\ \A c \in Clients : Receives(c) => chan'[c] = Append(chan[c], Event(t, s))
      /\ \A c \in Clients : ~ Receives(c) => chan'[c] = chan[c]
      /\ chan' = [c \in Clients |-> chan'[c]]
  BY DEF Tells, Broadcast
<1>4. \A c \in Clients :
        /\ chan'[c] \in Seq(EventSet)
        /\ Len(chan'[c]) <= BufferSize
        /\ \A e : Occurs(chan'[c], e) <=>
             Occurs(chan[c], e) \/ (Receives(c) /\ e = Event(t, s))
        /\ \A x \in Tasks : Says(chan'[c], x) => Says(chan[c], x) \/ x = t
        /\ \A x \in Tasks : Settles(chan'[c], x) =>
             Settles(chan[c], x) \/ (x = t /\ s \in Outcomes)
        /\ LastWord(chan[c]) /\ ~ Settles(chan[c], t) => LastWord(chan'[c])
  <2> SUFFICES ASSUME NEW c \in Clients, Receives(c)
               PROVE  /\ chan'[c] \in Seq(EventSet)
                      /\ Len(chan'[c]) <= BufferSize
                      /\ \A e : Occurs(chan'[c], e) <=>
                           Occurs(chan[c], e) \/ e = Event(t, s)
                      /\ \A x \in Tasks : Says(chan'[c], x) => Says(chan[c], x) \/ x = t
                      /\ \A x \in Tasks : Settles(chan'[c], x) =>
                           Settles(chan[c], x) \/ (x = t /\ s \in Outcomes)
                      /\ LastWord(chan[c]) /\ ~ Settles(chan[c], t) => LastWord(chan'[c])
    BY <1>2, <1>3
  <2>1. chan[c] \in Seq(EventSet) /\ Len(chan[c]) < BufferSize /\ BufferSize \in Nat
    BY <1>2, ClientsAssumption DEF Receives
  <2> DEFINE r == Append(chan[c], Event(t, s))
  <2>2. /\ r \in Seq(EventSet)
        /\ Len(r) = Len(chan[c]) + 1
        /\ \A e : Occurs(r, e) <=> Occurs(chan[c], e) \/ e = Event(t, s)
        /\ \A x \in Tasks : Says(r, x) <=> Says(chan[c], x) \/ x = t
        /\ \A x \in Tasks : Settles(r, x) <=>
             Settles(chan[c], x) \/ (x = t /\ s \in Outcomes)
        /\ LastWord(chan[c]) /\ ~ Settles(chan[c], t) => LastWord(r)
    BY <2>1, AppendEvent
  <2>3. chan'[c] = r
    BY <1>3
  <2> HIDE DEF r
  <2>4. Len(r) <= BufferSize
    BY <1>2, <2>1, <2>2
  <2> QED BY <2>2, <2>3, <2>4
<1>5. EventsTypeOK'
  <2>1. missed' \subseteq Clients \X Tasks
    BY <1>3 DEF EventsTypeOK
  <2>2. chan' \in [Clients -> Seq(EventSet)]
    BY <1>3, <1>4
  <2> QED BY <1>3, <1>4, <2>1, <2>2 DEF EventsTypeOK, EventSet
<1>6. \A c \in Clients : ~ Settles(chan[c], t) /\ shown[c][t] \notin Outcomes
  BY DEF ToldInv, Tells
<1>7. LastInv'
  BY <1>3, <1>4, <1>6 DEF LastInv
<1>8. ToldInv'
  BY <1>1, <1>3, <1>4 DEF ToldInv, QuietKept, Tells
<1>9. MissedInv'
  <2> SUFFICES ASSUME NEW c \in Clients, NEW x \in Tasks, c \notin registered \cup gone,
                      submit'[x] \in {"announced", "sent"}
               PROVE  <<c, x>> \in missed'
    BY <1>3 DEF MissedInv
  <2>1. ~ Receives(c)
    BY DEF Receives
  <2> QED BY <1>3, <2>1 DEF MissedInv, Tells
<1>10. HeardInv'
  <2> SUFFICES ASSUME NEW c \in registered, NEW x \in Tasks, MaySee(c, x)',
                      <<c, x>> \notin missed', Over(x)'
               PROVE  Heard(c, x)'
    BY <1>3 DEF HeardInv
  <2>1. c \in Clients
    BY DEF EventsTypeOK
  <2>2. CASE Over(x) /\ status'[x] = status[x]
    <3>1. MaySee(c, x) /\ <<c, x>> \notin missed
      BY <1>3, <2>2 DEF MaySee, Over
    <3> QED BY <1>3, <1>4, <2>1, <2>2, <3>1 DEF HeardInv, Heard
  <2>3. CASE x = t /\ s = status'[t]
    <3>1. Receives(c)
      BY <1>3, <2>1, <2>3
    <3>2. Occurs(chan'[c], Event(x, status'[x]))
      BY <1>4, <2>1, <2>3, <3>1
    <3> QED BY <3>2 DEF Heard
  <2> QED BY <1>1, <2>2, <2>3 DEF OverBefore
<1> QED BY <1>3, <1>5, <1>7, <1>8, <1>9, <1>10

-----------------------------------------------------------------------------
(* The steps of the client handlers leave the queue as it is.              *)
LEMMA QueueUnchanged ==
    ASSUME QInv, RecordedInv, UNCHANGED vars
    PROVE  /\ QInv'
           /\ RecordedInv'
           /\ \A t \in Tasks : Quiet(t)' <=> Quiet(t)
           /\ \A t \in Tasks : Over(t)' <=> Over(t)
<1>1. QInv'
  BY TokenStep, StatusStep DEF QInv
<1> QED BY <1>1 DEF vars, RecordedInv, Quiet, Over, Occurs

LEMMA RegisterKeeps ==
    ASSUME EInv, NEW c \in Clients, RegisterSSEClient(c)
    PROVE  ClientInv'
<1> USE DEF EInv, ClientInv
<1>1. /\ \A t \in Tasks : Quiet(t)' <=> Quiet(t)
      /\ \A t \in Tasks : Over(t)' <=> Over(t)
  BY QueueUnchanged DEF RegisterSSEClient
<1>2. /\ c \notin registered \cup gone
      /\ registered' = registered \cup {c}
      /\ UNCHANGED <<gone, chan, shown, missed, submit, status, stored>>
  BY DEF RegisterSSEClient, vars
<1>3. EventsTypeOK' /\ (registered \cap gone = {})' /\ LastInv'
  BY <1>2 DEF EventsTypeOK, LastInv
<1>4. ToldInv' /\ MissedInv'
  BY <1>1, <1>2 DEF ToldInv, MissedInv
<1>5. HeardInv'
  <2> SUFFICES ASSUME NEW d \in registered', NEW t \in Tasks, MaySee(d, t),
                      <<d, t>> \notin missed, Over(t)
               PROVE  Heard(d, t)
    BY <1>1, <1>2 DEF HeardInv, MaySee, Heard
  <2>1. CASE d = c
    <3>1. submit[t] \in {"announced", "sent"}
      <4>1. submit[t] \in {"none", "stored", "announced", "sent"}
        BY DEF QInv, TokenInv, TypeOK
      <4>2. submit[t] # "none" /\ submit[t] # "stored"
        BY DEF QInv, StatusInv, BornIsSubmitted, UnstartedStatus, Over, Outcomes
      <4> QED BY <4>1, <4>2
    <3> QED BY <1>2, <2>1, <3>1 DEF MissedInv
  <2>2. CASE d \in registered
    BY <2>2 DEF HeardInv
  <2> QED BY <1>2, <2>1, <2>2
<1> QED BY <1>3, <1>4, <1>5

LEMMA DeliverKeeps ==
    ASSUME EInv, NEW c \in Clients, Deliver(c)
    PROVE  ClientInv'
<1> USE DEF EInv, ClientInv
<1> DEFINE e == Head(chan[c])
<1>1. /\ \A t \in Tasks : Quiet(t)' <=> Quiet(t)
      /\ \A t \in Tasks : Over(t)' <=> Over(t)
  BY QueueUnchanged DEF Deliver
<1>2. /\ chan \in [Clients -> Seq(EventSet)]
      /\ shown \in [Clients -> [Tasks -> Statuses]]
  BY DEF EventsTypeOK, EventSet
<1>3. /\ chan[c] # <<>>
      /\ chan' = [chan EXCEPT ![c] = Tail(@)]
      /\ shown' = IF MaySee(c, e.task)
                  THEN [shown EXCEPT ![c][e.task] = e.status] ELSE shown
      /\ UNCHANGED <<registered, gone, missed, submit, status, stored>>
  BY DEF Deliver, vars
<1>4. /\ e \in EventSet
      /\ chan'[c] \in Seq(EventSet)
      /\ Len(chan'[c]) < Len(chan[c])
      /\ \A x : Occurs(chan[c], x) <=> x = e \/ Occurs(chan'[c], x)
      /\ \A x \in Tasks : Says(chan[c], x) <=> x = e.task \/ Says(chan'[c], x)
      /\ \A x \in Tasks :
           Settles(chan[c], x) <=>
             (x = e.task /\ e.status \in Outcomes) \/ Settles(chan'[c], x)
      /\ LastWord(chan'[c])
      /\ e.status \in Outcomes => ~ Says(chan'[c], e.task)
  <2> DEFINE r == Tail(chan[c])
  <2>1. chan[c] \in Seq(EventSet) /\ chan'[c] = r /\ LastWord(chan[c])
    BY <1>2, <1>3 DEF LastInv
  <2>2. /\ e \in EventSet
        /\ r \in Seq(EventSet)
        /\ Len(r) < Len(chan[c])
        /\ \A x : Occurs(chan[c], x) <=> x = e \/ Occurs(r, x)
        /\ \A x \in Tasks : Says(chan[c], x) <=> x = e.task \/ Says(r, x)
        /\ \A x \in Tasks :
             Settles(chan[c], x) <=>
               (x = e.task /\ e.status \in Outcomes) \/ Settles(r, x)
        /\ LastWord(chan[c]) =>
             LastWord(r) /\ (e.status \in Outcomes => ~ Says(r, e.task))
    BY <1>3, <2>1, TailEvent
  <2> HIDE DEF e, r
  <2> QED BY <2>1, <2>2
<1>5. \A d \in Clients : d # c => chan'[d] = chan[d] /\ shown'[d] = shown[d]
  BY <1>2, <1>3
<1>6. e.task \in Tasks /\ e.status \in Statuses
  BY <1>4 DEF EventSet
<1>7. \A t \in Tasks : /\ t # e.task => shown'[c][t] = shown[c][t]
                       /\ shown'[c][t] \in {shown[c][t], e.status}
                       /\ t = e.task /\ MaySee(c, t) => shown'[c][t] = e.status
  BY <1>2, <1>3, <1>6
<1>8. shown' \in [Clients -> [Tasks -> Statuses]]
  BY <1>2, <1>3, <1>6
<1>9. chan' \in [Clients -> Seq(EventSet)]
  BY <1>2, <1>3, <1>4
<1> HIDE DEF e
<1>10. EventsTypeOK' /\ (registered \cap gone = {})'
  <2>1. \A d \in Clients : Len(chan'[d]) <= BufferSize
    <3>1. Len(chan'[c]) <= BufferSize
      <4>1. /\ Len(chan'[c]) \in Nat /\ Len(chan[c]) \in Nat /\ BufferSize \in Nat
            /\ Len(chan[c]) <= BufferSize
        BY <1>2, <1>4, ClientsAssumption DEF EventsTypeOK
      <4> QED BY <1>4, <4>1
    <3> QED BY <1>5, <3>1 DEF EventsTypeOK
  <2> QED BY <1>3, <1>8, <1>9, <2>1 DEF EventsTypeOK, EventSet
<1>11. LastInv'
  <2>1. ASSUME NEW t \in Tasks, shown'[c][t] \in Outcomes PROVE ~ Says(chan'[c], t)
    BY <1>4, <1>7, <2>1 DEF LastInv
  <2> QED BY <1>4, <1>5, <2>1 DEF LastInv
<1>12. ToldInv'
  <2>1. ASSUME NEW t \in Tasks, shown'[c][t] \in Outcomes \/ Settles(chan'[c], t)
        PROVE  shown[c][t] \in Outcomes \/ Settles(chan[c], t)
    BY <1>4, <1>6, <1>7, <2>1
  <2> QED BY <1>1, <1>5, <2>1 DEF ToldInv
<1>13. MissedInv'
  BY <1>3 DEF MissedInv
<1>14. HeardInv'
  <2> SUFFICES ASSUME NEW d \in registered, NEW t \in Tasks, MaySee(d, t),
                      <<d, t>> \notin missed, Over(t)
               PROVE  Heard(d, t)'
    BY <1>1, <1>3 DEF HeardInv, MaySee
  <2>1. d \in Clients /\ Heard(d, t)
    BY DEF EventsTypeOK, HeardInv
  <2>2. CASE d # c
    BY <1>3, <1>5, <2>1, <2>2 DEF Heard
  <2>3. CASE d = c /\ t # e.task
    <3>1. Event(t, status[t]) # e
      BY <2>3 DEF Event
    <3> QED BY <1>3, <1>4, <1>7, <2>1, <2>3, <3>1 DEF Heard
  <2>4. CASE d = c /\ t = e.task
    <3>1. shown'[c][t] = e.status
      BY <1>7, <2>4
    <3>2. Event(t, status[t]).status = status[t]
      BY DEF Event
    <3>3. shown[c][t] # status[t]
      BY <1>4, <2>1, <2>4 DEF LastInv, Over
    <3> QED BY <1>3, <1>4, <2>1, <2>4, <3>1, <3>2, <3>3 DEF Heard
  <2> QED BY <2>2, <2>3, <2>4
<1> QED BY <1>10, <1>11, <1>12, <1>13, <1>14

LEMMA UnregisterKeeps ==
    ASSUME EInv, NEW c \in Clients, UnregisterSSEClient(c)
    PROVE  ClientInv'
<1> USE DEF EInv, ClientInv
<1>1. /\ \A t \in Tasks : Quiet(t)' <=> Quiet(t)
      /\ \A t \in Tasks : Over(t)' <=> Over(t)
  BY QueueUnchanged DEF UnregisterSSEClient
<1>2. /\ c \in registered
      /\ registered' = registered \ {c}
      /\ gone' = gone \cup {c}
      /\ UNCHANGED <<chan, shown, missed, submit, status, stored>>
  BY DEF UnregisterSSEClient, vars
<1>3. EventsTypeOK' /\ (registered \cap gone = {})' /\ LastInv'
  BY <1>2 DEF EventsTypeOK, LastInv
<1>4. ToldInv' /\ MissedInv'
  BY <1>1, <1>2 DEF ToldInv, MissedInv
<1>5. HeardInv'
  BY <1>1, <1>2 DEF HeardInv, MaySee, Heard
<1> QED BY <1>3, <1>4, <1>5

LEMMA ClientStep == EInv /\ [EventsNext]_<<vars, evars>> => EInv'
<1> SUFFICES ASSUME EInv, [EventsNext]_<<vars, evars>> PROVE EInv'
  OBVIOUS
<1> USE DEF EInv
<1>1. ASSUME Next, ClientInv' PROVE EInv'
  BY <1>1, TokenStep, StatusStep, QueueStepKeeps DEF QInv
<1>2. ASSUME UNCHANGED vars, ClientInv' PROVE EInv'
  BY <1>2, QueueUnchanged
<1>3. CASE QuietStep
  <2>1. NotAVerdict
    BY <1>3, QuietStepIsNoVerdict DEF QInv, TokenInv
  <2>2. UNCHANGED evars
    BY <1>3 DEF QuietStep
  <2> QED BY <1>1, <2>1, <2>2, QuietStepKeeps DEF NotAVerdict
<1>4. CASE \/ \E t \in Tasks : AnnouncePending(t)
           \/ \E t \in Tasks, u \in Users : AnnounceCancel(t, u)
           \/ \E w \in Workers : AnnounceRunning(w) \/ AnnounceVerdict(w)
  <2>1. PICK t \in Tasks, s \in Statuses : Tells(t, s)
    BY <1>4, AnnouncementTells
  <2> QED BY <1>1, <2>1, BroadcastKeeps DEF Tells
<1>5. ASSUME NEW c \in Clients,
             RegisterSSEClient(c) \/ Deliver(c) \/ UnregisterSSEClient(c)
      PROVE  EInv'
  <2>1. UNCHANGED vars
    BY <1>5 DEF RegisterSSEClient, Deliver, UnregisterSSEClient
  <2> QED BY <1>2, <1>5, <2>1, RegisterKeeps, DeliverKeeps, UnregisterKeeps
<1>6. CASE UNCHANGED <<vars, evars>>
  <2>1. /\ \A t \in Tasks : Quiet(t)' <=> Quiet(t)
        /\ \A t \in Tasks : Over(t)' <=> Over(t)
    BY <1>6, QueueUnchanged
  <2>2. ClientInv'
    BY <1>6, <2>1
    DEF ClientInv, vars, evars, EventsTypeOK, LastInv, LastWord, Says, ToldInv,
        Settles, MissedInv, HeardInv, MaySee, Heard, Occurs
  <2> QED BY <1>2, <1>6, <2>2
<1> QED BY <1>3, <1>4, <1>5, <1>6 DEF EventsNext

-----------------------------------------------------------------------------
(* The inductive invariant of the queue and its clients.                   *)
THEOREM EventsInvariant == EventsSpec => []EInv
<1>1. Init /\ InitEvents => EInv
  BY ClientInit
<1>2. EInv /\ [EventsNext]_<<vars, evars>> => EInv'
  BY ClientStep
<1> QED
  BY <1>1, <1>2, PTL DEF EventsSpec

THEOREM EventsTypes == EventsSpec => [](TypeOK /\ EventsTypeOK)
<1>1. EInv => TypeOK /\ EventsTypeOK
  BY DEF EInv, QInv, TokenInv, ClientInv
<1> QED
  BY <1>1, EventsInvariant, PTL

(* The verdict of a task is the last thing a client hears of it, although  *)
(* workers, submits and cancels broadcast concurrently (queue.go:492-498). *)
THEOREM NothingAfterVerdict == EventsSpec => []VerdictIsLastEvent
<1>1. EInv => VerdictIsLastEvent
  BY LastInvIsVerdictLast DEF EInv, ClientInv
<1> QED
  BY <1>1, EventsInvariant, PTL

(* A viewer who missed nothing is shown the outcome in the store once the  *)
(* worker has moved on and the channel is drained (SSETaskProgress).       *)
THEOREM OutcomeIsTrue == EventsSpec => []ShownOutcomeIsTrue
<1>1. ASSUME EInv PROVE ShownOutcomeIsTrue
  <2> SUFFICES ASSUME NEW c \in registered, NEW t \in Tasks,
                      MaySee(c, t), <<c, t>> \notin missed, ~ Announces(c, t),
                      status[t] \in Outcomes,
                      \A w \in Workers : ~ HeldBy(w, t)
               PROVE  shown[c][t] = status[t]
    BY DEF ShownOutcomeIsTrue, Outcomes
  <2>1. Heard(c, t)
    BY <1>1 DEF EInv, ClientInv, HeardInv, Over, MaySee, HeldBy
  <2>2. ~ Occurs(chan[c], Event(t, status[t]))
    BY DEF Occurs, Announces, Event
  <2> QED BY <2>1, <2>2 DEF Heard
<1> QED
  BY <1>1, EventsInvariant, PTL

(* Nothing is sent on the channel of a client that unregistered: the close *)
(* and the removal from sseClients are one step under the lock.            *)
THEOREM ClosedIsSilent == EventsSpec => NoSendAfterClose
<1> DEFINE Silent == \A c \in gone : chan'[c] = chan[c]
<1>1. EInv /\ [EventsNext]_<<vars, evars>> => [Silent]_<<vars, evars>>
  <2> SUFFICES ASSUME EInv, EventsNext, NEW c \in gone
               PROVE  chan'[c] = chan[c]
    OBVIOUS
  <2>1. /\ c \in Clients /\ c \notin registered
        /\ chan \in [Clients -> Seq(EventSet)]
    BY DEF EInv, ClientInv, EventsTypeOK, EventSet
  <2>2. ASSUME NEW t \in Tasks, NEW s \in Statuses, Tells(t, s)
        PROVE  chan'[c] = chan[c]
    BY <2>1, <2>2 DEF Tells, Broadcast, Receives
  <2>3. ASSUME NEW d \in Clients, Deliver(d) PROVE chan'[c] = chan[c]
    BY <2>1, <2>3 DEF Deliver
  <2>4. CASE \/ QuietStep
             \/ \E d \in Clients : RegisterSSEClient(d) \/ UnregisterSSEClient(d)
    BY <2>4 DEF QuietStep, RegisterSSEClient, UnregisterSSEClient, evars
  <2> QED BY <2>2, <2>3, <2>4, AnnouncementTells DEF EventsNext, EInv
<1> QED
  BY <1>1, EventsInvariant, PTL DEF EventsSpec, NoSendAfterClose
=============================================================================
