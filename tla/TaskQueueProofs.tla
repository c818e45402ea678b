-------------------------- MODULE TaskQueueProofs --------------------------
(***************************************************************************)
(* Theorems about TaskQueue for every number of tasks, workers and callers *)
(* and every channel capacity.                                             *)
(***************************************************************************)
EXTENDS TaskQueue, FiniteSetTheorems, TLAPS

(* Where a task id may be: the token invariant.  An id is in exactly one   *)
(* place, its Submit call, the channel or one worker, or nowhere once it   *)
(* was dealt with; the handler was called at most once and only by then.   *)
Occurs(q, t) == \E i \in 1..Len(q) : q[i] = t

Distinct(q) == \A i, j \in 1..Len(q) : q[i] = q[j] => i = j

IdleHasNoJob == \A w \in Workers : job[w] = NoTask <=> pc[w] = "idle"

OneHolder ==
    \A w, v \in Workers : job[w] \in Tasks /\ job[w] = job[v] => w = v

SentOnce ==
    \A t \in Tasks :
        Occurs(queue, t) \/ (\E w \in Workers : job[w] = t) => submit[t] = "sent"

QueuedOrHeld == \A w \in Workers : ~ Occurs(queue, job[w])

CalledOnce ==
    \A t \in Tasks :
        /\ runs[t] \in {0, 1}
        /\ runs[t] = 1 =>
              /\ submit[t] = "sent"
              /\ ~ Occurs(queue, t)
              /\ \A w \in Workers : job[w] = t => pc[w] \in AfterCall

TokenInv ==
    /\ TypeOK
    /\ Distinct(queue)
    /\ IdleHasNoJob
    /\ OneHolder
    /\ SentOnce
    /\ QueuedOrHeld
    /\ CalledOnce

-----------------------------------------------------------------------------
(* What sending on the channel does to the ids in it.                      *)
LEMMA AppendOccurs ==
    ASSUME NEW S, NEW q \in Seq(S), NEW t \in S
    PROVE  /\ Append(q, t) \in Seq(S)
           /\ Len(Append(q, t)) = Len(q) + 1
           /\ \A s : Occurs(Append(q, t), s) <=> Occurs(q, s) \/ s = t
           /\ Distinct(q) /\ ~ Occurs(q, t) => Distinct(Append(q, t))
<1> DEFINE r == Append(q, t)
<1>1. /\ r \in Seq(S)
      /\ Len(r) = Len(q) + 1
      /\ Len(q) \in Nat
      /\ \A i \in 1..Len(q) : r[i] = q[i]
      /\ r[Len(q) + 1] = t
  OBVIOUS
<1>2. 1..Len(r) = (1..Len(q)) \cup {Len(q) + 1}
  BY <1>1
<1> HIDE DEF r
<1>3. \A s : Occurs(r, s) <=> Occurs(q, s) \/ s = t
  BY <1>1, <1>2 DEF Occurs
<1>4. Distinct(q) /\ ~ Occurs(q, t) => Distinct(r)
  BY <1>1, <1>2 DEF Distinct, Occurs
<1> QED
  BY <1>1, <1>3, <1>4 DEF r

(* What receiving from the channel does to the ids in it.                  *)
LEMMA TailOccurs ==
    ASSUME NEW S, NEW q \in Seq(S), q # <<>>
    PROVE  /\ Head(q) \in S
           /\ Tail(q) \in Seq(S)
           /\ Len(Tail(q)) < Len(q)
           /\ \A s : Occurs(q, s) <=> s = Head(q) \/ Occurs(Tail(q), s)
           /\ Distinct(q) => Distinct(Tail(q)) /\ ~ Occurs(Tail(q), Head(q))
<1> DEFINE r == Tail(q)
<1>1. /\ r \in Seq(S)
      /\ Len(q) \in Nat \ {0}
      /\ Len(r) = Len(q) - 1
      /\ \A i \in 1..Len(r) : r[i] = q[i + 1]
      /\ Head(q) = q[1]
      /\ q[1] \in S
  OBVIOUS
<1>2. /\ \A i \in 1..Len(r) : i + 1 \in 1..Len(q) /\ i + 1 # 1
      /\ \A i \in 1..Len(q) : i # 1 => i - 1 \in 1..Len(r) /\ (i - 1) + 1 = i
      /\ 1 \in 1..Len(q)
  BY <1>1
<1> HIDE DEF r
<1>3. \A s : Occurs(q, s) <=> s = q[1] \/ Occurs(r, s)
  <2>1. ASSUME NEW s, NEW i \in 1..Len(q), q[i] = s, s # q[1]
        PROVE  Occurs(r, s)
    <3>1. i - 1 \in 1..Len(r) /\ r[i - 1] = s
      BY <1>1, <1>2, <2>1
    <3> QED BY <3>1 DEF Occurs
  <2>2. ASSUME NEW s, NEW i \in 1..Len(r), r[i] = s
        PROVE  Occurs(q, s)
    BY <1>1, <1>2, <2>2 DEF Occurs
  <2> QED BY <1>2, <2>1, <2>2 DEF Occurs
<1>4. ASSUME Distinct(q) PROVE Distinct(r)
  <2> SUFFICES ASSUME NEW i \in 1..Len(r), NEW j \in 1..Len(r), r[i] = r[j]
               PROVE  i = j
    BY DEF Distinct
  <2>1. q[i + 1] = q[j + 1] /\ i + 1 \in 1..Len(q) /\ j + 1 \in 1..Len(q)
    BY <1>1, <1>2
  <2>2. i + 1 = j + 1
    BY <2>1, <1>4 DEF Distinct
  <2> QED BY <2>2
<1>5. ASSUME Distinct(q) PROVE ~ Occurs(r, q[1])
  BY <1>1, <1>2, <1>5 DEF Distinct, Occurs
<1> QED
  BY <1>1, <1>3, <1>4, <1>5 DEF r

-----------------------------------------------------------------------------
LEMMA TokenInit == Init => TokenInv
  BY CapacityAssumption, NoTaskAssumption
  DEF Init, TokenInv, TypeOK, Statuses, Finished, Labels, Distinct, Occurs,
      IdleHasNoJob, OneHolder, SentOnce, QueuedOrHeld, CalledOnce

(* The parts of the invariant that say where the ids are.                  *)
PlacesInv ==
    /\ Distinct(queue)
    /\ IdleHasNoJob
    /\ OneHolder
    /\ SentOnce
    /\ QueuedOrHeld
    /\ CalledOnce

(* A worker with a task in hand moves on: it keeps the task or lets go of  *)
(* it, does not return to a label before the call, and touches no channel. *)
WorkerMoves(w, l) ==
    /\ pc[w] # "idle"
    /\ pc' = [pc EXCEPT ![w] = l]
    /\ job' = IF l = "idle" THEN [job EXCEPT ![w] = NoTask] ELSE job
    /\ pc[w] \in AfterCall => l \in AfterCall \cup {"idle"}
    /\ UNCHANGED <<submit, queue>>

LEMMA WorkerMovesPlaces ==
    ASSUME TokenInv, NEW w \in Workers, NEW l \in Labels, WorkerMoves(w, l),
           \/ UNCHANGED runs
           \/ /\ pc[w] = "dispatch" /\ l \in AfterCall
              /\ runs' = [runs EXCEPT ![job[w]] = @ + 1]
    PROVE  PlacesInv'
<1> USE NoTaskAssumption DEF TokenInv
<1>1. /\ job \in [Workers -> Tasks \cup {NoTask}]
      /\ pc \in [Workers -> Labels]
      /\ runs \in [Tasks -> Nat]
      /\ job[w] \in Tasks
      /\ ~ Occurs(queue, NoTask)
  BY DEF TypeOK, IdleHasNoJob, WorkerMoves, Occurs
<1>2. /\ UNCHANGED <<submit, queue>>
      /\ \A v \in Workers : v # w => job'[v] = job[v] /\ pc'[v] = pc[v]
      /\ pc'[w] = l
      /\ job'[w] = IF l = "idle" THEN NoTask ELSE job[w]
  BY <1>1 DEF WorkerMoves
<1>3. \A v \in Workers : job'[v] \in Tasks => job'[v] = job[v]
  BY <1>1, <1>2
<1>4. Distinct(queue)' /\ (\A t : Occurs(queue, t)' <=> Occurs(queue, t))
  BY <1>2 DEF Distinct, Occurs
<1>5. IdleHasNoJob'
  BY <1>1, <1>2 DEF IdleHasNoJob
<1>6. OneHolder'
  BY <1>3 DEF OneHolder
<1>7. SentOnce' /\ QueuedOrHeld'
  BY <1>1, <1>2, <1>3, <1>4 DEF SentOnce, QueuedOrHeld
<1>8. CalledOnce'
  <2> SUFFICES ASSUME NEW t \in Tasks
               PROVE  /\ runs'[t] \in {0, 1}
                      /\ runs'[t] = 1 =>
                            /\ submit[t] = "sent"
                            /\ ~ Occurs(queue, t)
                            /\ \A v \in Workers : job'[v] = t => pc'[v] \in AfterCall
    BY <1>2, <1>4 DEF CalledOnce
  <2>1. CASE UNCHANGED runs
    <3>1. ASSUME runs[t] = 1, NEW v \in Workers, job'[v] = t
          PROVE  pc'[v] \in AfterCall
      <4>1. job[v] = t /\ pc[v] \in AfterCall
        BY <1>3, <3>1 DEF CalledOnce
      <4> QED BY <1>1, <1>2, <3>1, <4>1 DEF WorkerMoves
    <3> QED BY <2>1, <3>1 DEF CalledOnce
  <2>2. CASE /\ pc[w] = "dispatch" /\ l \in AfterCall
             /\ runs' = [runs EXCEPT ![job[w]] = @ + 1]
    <3>1. runs[job[w]] = 0
      BY <1>1, <2>2 DEF CalledOnce, AfterCall, InHandler
    <3>2. CASE t = job[w]
      <4>1. runs'[t] = 1
        BY <1>1, <2>2, <3>1, <3>2
      <4>2. submit[t] = "sent" /\ ~ Occurs(queue, t)
        BY <3>2 DEF SentOnce, QueuedOrHeld
      <4>3. \A v \in Workers : job'[v] = t => v = w
        BY <1>1, <1>3, <3>2 DEF OneHolder
      <4> QED BY <1>2, <2>2, <4>1, <4>2, <4>3
    <3>3. CASE t # job[w]
      <4>1. runs'[t] = runs[t]
        BY <1>1, <2>2, <3>3
      <4>2. \A v \in Workers : job'[v] = t => v # w /\ job[v] = t /\ pc'[v] = pc[v]
        BY <1>2, <1>3, <3>3
      <4> QED BY <4>1, <4>2 DEF CalledOnce
    <3> QED BY <3>2, <3>3
  <2> QED BY <2>1, <2>2
<1> QED
  BY <1>4, <1>5, <1>6, <1>7, <1>8 DEF PlacesInv

LEMMA TokenStep == TokenInv /\ [Next]_vars => TokenInv'
<1> SUFFICES ASSUME TokenInv, [Next]_vars PROVE TokenInv'
  OBVIOUS
<1> USE NoTaskAssumption, CapacityAssumption DEF TokenInv
<1>1. ASSUME NEW t \in Tasks, SubmitStore(t) PROVE TokenInv'
  <2>1. /\ submit[t] = "none"
        /\ submit' = [submit EXCEPT ![t] = "stored"]
        /\ UNCHANGED <<queue, pc, job, runs>>
    BY <1>1 DEF SubmitStore
  <2>2. TypeOK'
    BY <1>1 DEF SubmitStore, TypeOK, Statuses, Active
  <2>3. ~ Occurs(queue, t) /\ (\A w \in Workers : job[w] # t) /\ runs[t] = 0
    BY <2>1 DEF SentOnce, CalledOnce
  <2>4. Distinct(queue)' /\ (\A s : Occurs(queue, s)' <=> Occurs(queue, s))
    BY <2>1 DEF Distinct, Occurs
  <2>5. IdleHasNoJob' /\ OneHolder' /\ QueuedOrHeld'
    BY <2>1, <2>4 DEF IdleHasNoJob, OneHolder, QueuedOrHeld
  <2>6. SentOnce' /\ CalledOnce'
    BY <2>1, <2>3, <2>4 DEF TypeOK, SentOnce, CalledOnce
  <2> QED BY <2>2, <2>4, <2>5, <2>6
<1>2. ASSUME NEW t \in Tasks, SubmitAnnounce(t) PROVE TokenInv'
  BY <1>2
  DEF SubmitAnnounce, TypeOK, Distinct, Occurs, IdleHasNoJob, OneHolder,
      SentOnce, QueuedOrHeld, CalledOnce
<1>3. ASSUME NEW t \in Tasks, SubmitSend(t) PROVE TokenInv'
  <2>1. /\ queue' = Append(queue, t) /\ ~ Occurs(queue, t)
        /\ submit' = [submit EXCEPT ![t] = "sent"] /\ submit[t] # "sent"
        /\ UNCHANGED <<status, stored, pc, job, verdict, cancelFn, ctxDone, asked, runs>>
    BY <1>3 DEF SubmitSend, SentOnce
  <2>2. /\ queue' \in Seq(Tasks)
        /\ Len(queue') = Len(queue) + 1
        /\ \A s : Occurs(queue', s) <=> Occurs(queue, s) \/ s = t
        /\ Distinct(queue')
    BY <2>1, AppendOccurs DEF TypeOK
  <2>3. TypeOK'
    BY <1>3, <2>1, <2>2 DEF SubmitSend, TypeOK
  <2>4. IdleHasNoJob' /\ OneHolder'
    BY <2>1 DEF IdleHasNoJob, OneHolder
  <2>5. SentOnce' /\ QueuedOrHeld' /\ CalledOnce'
    BY <2>1, <2>2 DEF TypeOK, SentOnce, QueuedOrHeld, CalledOnce
  <2> QED BY <2>2, <2>3, <2>4, <2>5
<1>4. ASSUME NEW w \in Workers, Receive(w) PROVE TokenInv'
  <2> DEFINE h == Head(queue)
  <2>1. /\ pc[w] = "idle" /\ queue # <<>>
        /\ queue' = Tail(queue)
        /\ job' = [job EXCEPT ![w] = h]
        /\ pc' = [pc EXCEPT ![w] = "received"]
        /\ UNCHANGED <<status, stored, submit, verdict, cancelFn, ctxDone, asked, runs>>
    BY <1>4 DEF Receive, Goto
  <2>2. /\ h \in Tasks
        /\ queue' \in Seq(Tasks)
        /\ Len(queue') < Len(queue)
        /\ \A s : Occurs(queue, s) <=> s = h \/ Occurs(queue', s)
        /\ Distinct(queue') /\ ~ Occurs(queue', h)
    BY <2>1, TailOccurs DEF TypeOK
  <2> HIDE DEF h
  <2>3. TypeOK'
    <3>1. Len(queue') \in Nat /\ Len(queue) \in Nat /\ Len(queue) <= Capacity
      BY <2>2 DEF TypeOK
    <3> QED BY <2>1, <2>2, <3>1 DEF TypeOK, Labels
  <2>4. IdleHasNoJob'
    BY <2>1, <2>2 DEF TypeOK, IdleHasNoJob
  <2>5. OneHolder'
    BY <2>1, <2>2 DEF TypeOK, OneHolder, QueuedOrHeld
  <2>6. SentOnce' /\ QueuedOrHeld'
    BY <2>1, <2>2 DEF TypeOK, SentOnce, QueuedOrHeld
  <2>7. CalledOnce'
    BY <2>1, <2>2 DEF TypeOK, CalledOnce
  <2> QED BY <2>2, <2>3, <2>4, <2>5, <2>6, <2>7
<1>5. ASSUME NEW w \in Workers, LoadTask(w) PROVE TokenInv'
  <2>1. TypeOK'
    BY <1>5 DEF LoadTask, Release, Goto, TypeOK, Labels, Statuses, Active, Finished
  <2>2. \E l \in {"loaded", "idle"} : WorkerMoves(w, l)
    BY <1>5 DEF LoadTask, Release, Goto, WorkerMoves, AfterCall, InHandler
  <2>3. UNCHANGED runs
    BY <1>5 DEF LoadTask
  <2> QED BY <2>1, <2>2, <2>3, WorkerMovesPlaces DEF Labels, PlacesInv
<1>6. ASSUME NEW w \in Workers, CheckCanceled(w) PROVE TokenInv'
  <2>1. TypeOK'
    BY <1>6 DEF CheckCanceled, Release, Goto, TypeOK, Labels, Statuses, Active, Finished
  <2>2. \E l \in {"checked", "idle"} : WorkerMoves(w, l)
    BY <1>6 DEF CheckCanceled, Release, Goto, WorkerMoves, AfterCall, InHandler
  <2>3. UNCHANGED runs
    BY <1>6 DEF CheckCanceled
  <2> QED BY <2>1, <2>2, <2>3, WorkerMovesPlaces DEF Labels, PlacesInv
<1>7. ASSUME NEW w \in Workers, StoreCancelFn(w) PROVE TokenInv'
  <2>1. TypeOK'
    BY <1>7 DEF StoreCancelFn, Goto, TypeOK, Labels, IdleHasNoJob
  <2>2. \E l \in {"registered"} : WorkerMoves(w, l)
    BY <1>7 DEF StoreCancelFn, Goto, WorkerMoves, AfterCall, InHandler
  <2>3. UNCHANGED runs
    BY <1>7 DEF StoreCancelFn
  <2> QED BY <2>1, <2>2, <2>3, WorkerMovesPlaces DEF Labels, PlacesInv
<1>8. ASSUME NEW w \in Workers, MarkRunning(w) PROVE TokenInv'
  <2>1. TypeOK'
    BY <1>8 DEF MarkRunning, UpdateStatus, Goto, TypeOK, Labels, Statuses, Active, Finished
  <2>2. \E l \in {"marked"} : WorkerMoves(w, l)
    BY <1>8 DEF MarkRunning, Goto, WorkerMoves, AfterCall, InHandler
  <2>3. UNCHANGED runs
    BY <1>8 DEF MarkRunning
  <2> QED BY <2>1, <2>2, <2>3, WorkerMovesPlaces DEF Labels, PlacesInv
<1>9. ASSUME NEW w \in Workers, BroadcastRunning(w) PROVE TokenInv'
  <2>1. TypeOK'
    BY <1>9 DEF BroadcastRunning, Goto, TypeOK, Labels, Statuses, Active, Finished
  <2>2. \E l \in {"dispatch"} : WorkerMoves(w, l)
    BY <1>9 DEF BroadcastRunning, Goto, WorkerMoves, AfterCall, InHandler
  <2>3. UNCHANGED runs
    BY <1>9 DEF BroadcastRunning
  <2> QED BY <2>1, <2>2, <2>3, WorkerMovesPlaces DEF Labels, PlacesInv
<1>10. ASSUME NEW w \in Workers, CallHandler(w) PROVE TokenInv'
  <2>1. TypeOK'
    <3>1. job[w] \in Tasks
      BY <1>10 DEF CallHandler, TypeOK, IdleHasNoJob
    <3>2. runs' \in [Tasks -> Nat] /\ pc' \in [Workers -> Labels]
      BY <1>10, <3>1 DEF CallHandler, Goto, TypeOK, Labels
    <3> QED BY <1>10, <3>2 DEF CallHandler, TypeOK
  <2>2. \E l \in {"executing"} : WorkerMoves(w, l)
    BY <1>10 DEF CallHandler, Goto, WorkerMoves, AfterCall, InHandler
  <2>3. pc[w] = "dispatch" /\ runs' = [runs EXCEPT ![job[w]] = @ + 1]
    BY <1>10 DEF CallHandler
  <2> QED BY <2>1, <2>2, <2>3, WorkerMovesPlaces
          DEF Labels, PlacesInv, AfterCall, InHandler
<1>11. ASSUME NEW w \in Workers, NoHandler(w) PROVE TokenInv'
  <2>1. TypeOK'
    BY <1>11 DEF NoHandler, Goto, TypeOK, Labels, Statuses, Active, Finished
  <2>2. \E l \in {"returned"} : WorkerMoves(w, l)
    BY <1>11 DEF NoHandler, Goto, WorkerMoves, AfterCall, InHandler
  <2>3. UNCHANGED runs
    BY <1>11 DEF NoHandler
  <2> QED BY <2>1, <2>2, <2>3, WorkerMovesPlaces DEF Labels, PlacesInv
<1>12. ASSUME NEW w \in Workers, ReportProgress(w) PROVE TokenInv'
  <2>1. TypeOK'
    BY <1>12 DEF ReportProgress, Goto, TypeOK, Labels, Statuses, Active, Finished
  <2>2. \E l \in {"progress"} : WorkerMoves(w, l)
    BY <1>12 DEF ReportProgress, Goto, WorkerMoves, AfterCall, InHandler
  <2>3. UNCHANGED runs
    BY <1>12 DEF ReportProgress
  <2> QED BY <2>1, <2>2, <2>3, WorkerMovesPlaces DEF Labels, PlacesInv
<1>13. ASSUME NEW w \in Workers, BroadcastProgress(w) PROVE TokenInv'
  <2>1. TypeOK'
    BY <1>13 DEF BroadcastProgress, Goto, TypeOK, Labels, Statuses, Active, Finished
  <2>2. \E l \in {"executing"} : WorkerMoves(w, l)
    BY <1>13 DEF BroadcastProgress, Goto, WorkerMoves, AfterCall, InHandler
  <2>3. UNCHANGED runs
    BY <1>13 DEF BroadcastProgress
  <2> QED BY <2>1, <2>2, <2>3, WorkerMovesPlaces DEF Labels, PlacesInv
<1>14. ASSUME NEW w \in Workers, HandlerReturns(w) PROVE TokenInv'
  <2>1. TypeOK'
    BY <1>14 DEF HandlerReturns, Verdict, Goto, TypeOK, Labels, Statuses, Active, Finished
  <2>2. \E l \in {"returned"} : WorkerMoves(w, l)
    BY <1>14 DEF HandlerReturns, Goto, WorkerMoves, AfterCall, InHandler
  <2>3. UNCHANGED runs
    BY <1>14 DEF HandlerReturns
  <2> QED BY <2>1, <2>2, <2>3, WorkerMovesPlaces DEF Labels, PlacesInv
<1>15. ASSUME NEW w \in Workers, RecordVerdict(w) PROVE TokenInv'
  <2>1. TypeOK'
    BY <1>15 DEF RecordVerdict, UpdateStatus, Goto, TypeOK, Labels, Statuses, Active, Finished
  <2>2. \E l \in {"settled"} : WorkerMoves(w, l)
    BY <1>15 DEF RecordVerdict, Goto, WorkerMoves, AfterCall, InHandler
  <2>3. UNCHANGED runs
    BY <1>15 DEF RecordVerdict
  <2> QED BY <2>1, <2>2, <2>3, WorkerMovesPlaces DEF Labels, PlacesInv
<1>16. ASSUME NEW w \in Workers, BroadcastVerdict(w) PROVE TokenInv'
  <2>1. TypeOK'
    BY <1>16 DEF BroadcastVerdict, Goto, TypeOK, Labels, Statuses, Active, Finished
  <2>2. \E l \in {"closing"} : WorkerMoves(w, l)
    BY <1>16 DEF BroadcastVerdict, Goto, WorkerMoves, AfterCall, InHandler
  <2>3. UNCHANGED runs
    BY <1>16 DEF BroadcastVerdict
  <2> QED BY <2>1, <2>2, <2>3, WorkerMovesPlaces DEF Labels, PlacesInv
<1>17. ASSUME NEW w \in Workers, RemoveCancelFn(w) PROVE TokenInv'
  <2>1. TypeOK'
    BY <1>17 DEF RemoveCancelFn, Release, Goto, TypeOK, Labels, Statuses, Active, Finished
  <2>2. \E l \in {"idle"} : WorkerMoves(w, l)
    BY <1>17 DEF RemoveCancelFn, Release, Goto, WorkerMoves, AfterCall, InHandler
  <2>3. UNCHANGED runs
    BY <1>17 DEF RemoveCancelFn
  <2> QED BY <2>1, <2>2, <2>3, WorkerMovesPlaces DEF Labels, PlacesInv
<1>18. ASSUME NEW t \in Tasks, NEW u \in Users, CancelTaskForUser(t, u) PROVE TokenInv'
  BY <1>18
  DEF CancelTaskForUser, CancelPending, CancelRunning, TypeOK, Statuses,
      Finished, Distinct, Occurs, IdleHasNoJob, OneHolder,
      SentOnce, QueuedOrHeld, CalledOnce
<1>19. ASSUME NEW u \in Users, ClearFinishedTasksForUser(u) PROVE TokenInv'
  BY <1>19
  DEF ClearFinishedTasksForUser, TypeOK, Distinct, Occurs, IdleHasNoJob, OneHolder,
      SentOnce, QueuedOrHeld, CalledOnce
<1>20. ASSUME CleanupExpiredTasks PROVE TokenInv'
  BY <1>20
  DEF CleanupExpiredTasks, TypeOK, Distinct, Occurs, IdleHasNoJob, OneHolder,
      SentOnce, QueuedOrHeld, CalledOnce
<1>21. CASE UNCHANGED vars
  BY <1>21
  DEF vars, TypeOK, Distinct, Occurs, IdleHasNoJob, OneHolder,
      SentOnce, QueuedOrHeld, CalledOnce
<1> QED
  BY <1>1, <1>2, <1>3, <1>4, <1>5, <1>6, <1>7, <1>8, <1>9, <1>10, <1>11,
    <1>12, <1>13, <1>14, <1>15, <1>16, <1>17, <1>18, <1>19, <1>20, <1>21
  DEF Next, SubmitStep, StartStep, FinishStep, ProgressStep, Request

(* In every behaviour the variables keep their types, and every task id is *)
(* in one place: its Submit call, the channel, or one worker.              *)
THEOREM TokenInvariant == Spec => []TokenInv
<1>1. Init => TokenInv
  BY TokenInit
<1>2. TokenInv /\ [Next]_vars => TokenInv'
  BY TokenStep
<1> QED
  BY <1>1, <1>2, PTL DEF Spec

THEOREM TypeCorrect == Spec => []TypeOK
<1>1. TokenInv => TypeOK
  BY DEF TokenInv
<1> QED
  BY <1>1, TokenInvariant, PTL

(* The handler of a task is called at most once (processTask, whatever the *)
(* requests do meanwhile).                                                 *)
THEOREM AtMostOnce == Spec => []ExecutedAtMostOnce
<1>1. TokenInv => ExecutedAtMostOnce
  BY DEF TokenInv, CalledOnce, ExecutedAtMostOnce
<1> QED
  BY <1>1, TokenInvariant, PTL

-----------------------------------------------------------------------------
(* How the status of a task goes with the place of its id.                 *)

RunLabels == {"marked", "dispatch", "executing", "progress", "returned"}

BornIsSubmitted ==
    \A t \in Tasks : /\ submit[t] = "none" <=> status[t] = "unborn"
                     /\ t \in stored => submit[t] # "none"

UnstartedStatus ==
    /\ \A t \in Tasks :
          submit[t] \in {"stored", "announced"} \/ Occurs(queue, t) =>
             status[t] \in {"pending", "canceled"}
    /\ \A w \in Workers :
          pc[w] \in BeforeMark => status[job[w]] \in {"pending", "canceled"}

RunningIsHeld ==
    \A t \in Tasks : status[t] = "running" =>
        \E w \in Workers : job[w] = t /\ pc[w] \in RunLabels

HeldIsRunning ==
    \A w \in Workers :
        pc[w] \in RunLabels /\ job[w] \in stored => status[job[w]] = "running"

RegisteredWhileHeld ==
    \A w \in Workers : pc[w] \in WithCancelFn => job[w] \in cancelFn

VerdictOnRequest ==
    /\ ctxDone \subseteq asked
    /\ \A w \in Workers :
          pc[w] = "returned" /\ verdict[w] = "canceled" => job[w] \in ctxDone

PendingIsSomewhere ==
    \A t \in Tasks : status[t] = "pending" =>
        \/ submit[t] \in {"stored", "announced"}
        \/ Occurs(queue, t)
        \/ \E w \in Workers : job[w] = t /\ pc[w] \in BeforeMark

StatusInv ==
    /\ ActiveIsStored
    /\ BornIsSubmitted
    /\ UnstartedStatus
    /\ RunningIsHeld
    /\ HeldIsRunning
    /\ RegisteredWhileHeld
    /\ VerdictOnRequest
    /\ CanceledOnRequest
    /\ PendingIsSomewhere

QInv == TokenInv /\ StatusInv

LEMMA StatusInit == Init => StatusInv
  BY DEF Init, StatusInv, ActiveIsStored, BornIsSubmitted, UnstartedStatus,
         RunningIsHeld, HeldIsRunning, RegisteredWhileHeld, VerdictOnRequest,
         CanceledOnRequest, PendingIsSomewhere, Occurs, Active, BeforeMark,
         RunLabels, WithCancelFn

(* The same worker move, now with what it may do to registrations and to   *)
(* its verdict while every status stays as it is.                          *)
StatusMoves(w, l) ==
    /\ WorkerMoves(w, l)
    /\ UNCHANGED <<status, stored, ctxDone, asked>>
    /\ l \in BeforeMark => pc[w] \in BeforeMark
    /\ pc[w] \in BeforeMark /\ l \notin BeforeMark => status[job[w]] # "pending"
    /\ l \in RunLabels <=> pc[w] \in RunLabels
    /\ cancelFn \ {job[w]} \subseteq cancelFn'
    /\ l \in WithCancelFn => job[w] \in cancelFn'
    /\ \A v \in Workers : v # w => verdict'[v] = verdict[v]
    /\ l = "returned" /\ verdict'[w] = "canceled" => job[w] \in ctxDone

LEMMA StatusMovesKeep ==
    ASSUME QInv, NEW w \in Workers, NEW l \in Labels, StatusMoves(w, l)
    PROVE  StatusInv'
<1> USE NoTaskAssumption DEF QInv, TokenInv, StatusInv
<1>1. /\ job \in [Workers -> Tasks \cup {NoTask}]
      /\ pc \in [Workers -> Labels]
      /\ job[w] \in Tasks
  BY DEF TypeOK, IdleHasNoJob, WorkerMoves, StatusMoves
<1>2. /\ UNCHANGED <<submit, queue>>
      /\ \A v \in Workers : v # w => job'[v] = job[v] /\ pc'[v] = pc[v]
      /\ pc'[w] = l
      /\ job'[w] = IF l = "idle" THEN NoTask ELSE job[w]
      /\ \A t : Occurs(queue, t)' <=> Occurs(queue, t)
  BY <1>1 DEF StatusMoves, WorkerMoves, Occurs
<1>3. \A v \in Workers : pc'[v] # "idle" => job'[v] = job[v] /\ job[v] \in Tasks
  BY <1>1, <1>2 DEF IdleHasNoJob
<1>4. ActiveIsStored' /\ BornIsSubmitted' /\ CanceledOnRequest'
  BY <1>2 DEF StatusMoves, ActiveIsStored, BornIsSubmitted, CanceledOnRequest
<1>5. UnstartedStatus'
  BY <1>2, <1>3 DEF StatusMoves, UnstartedStatus, BeforeMark
<1>6. RunningIsHeld'
  <2> SUFFICES ASSUME NEW t \in Tasks, status[t] = "running"
               PROVE  \E v \in Workers : job'[v] = t /\ pc'[v] \in RunLabels
    BY DEF RunningIsHeld, StatusMoves
  <2>1. PICK v \in Workers : job[v] = t /\ pc[v] \in RunLabels
    BY DEF RunningIsHeld
  <2>2. pc'[v] \in RunLabels
    BY <1>2, <2>1 DEF StatusMoves
  <2>3. job'[v] = t
    BY <1>3, <2>1, <2>2 DEF RunLabels
  <2> QED BY <2>2, <2>3
<1>7. HeldIsRunning'
  BY <1>2, <1>3 DEF StatusMoves, HeldIsRunning, RunLabels
<1>8. RegisteredWhileHeld'
  <2> SUFFICES ASSUME NEW v \in Workers, pc'[v] \in WithCancelFn
               PROVE  job'[v] \in cancelFn'
    BY DEF RegisteredWhileHeld
  <2>1. job'[v] = job[v] /\ job[v] \in Tasks
    BY <1>3 DEF WithCancelFn
  <2>2. CASE v = w
    BY <1>2, <2>1, <2>2 DEF StatusMoves
  <2>3. CASE v # w
    BY <1>2, <2>1, <2>3 DEF StatusMoves, RegisteredWhileHeld, OneHolder
  <2> QED BY <2>2, <2>3
<1>9. VerdictOnRequest'
  BY <1>2, <1>3 DEF StatusMoves, VerdictOnRequest
<1>10. PendingIsSomewhere'
  <2> SUFFICES ASSUME NEW t \in Tasks, status[t] = "pending",
                      submit[t] \notin {"stored", "announced"},
                      ~ Occurs(queue, t)
               PROVE  \E v \in Workers : job'[v] = t /\ pc'[v] \in BeforeMark
    BY <1>2 DEF PendingIsSomewhere, StatusMoves
  <2>1. PICK v \in Workers : job[v] = t /\ pc[v] \in BeforeMark
    BY DEF PendingIsSomewhere
  <2>2. pc'[v] \in BeforeMark
    BY <1>2, <2>1 DEF StatusMoves
  <2>3. job'[v] = t
    BY <1>3, <2>1, <2>2 DEF BeforeMark
  <2> QED BY <2>2, <2>3
<1> QED
  BY <1>4, <1>5, <1>6, <1>7, <1>8, <1>9, <1>10

LEMMA StatusStep == QInv /\ [Next]_vars => StatusInv'
<1> SUFFICES ASSUME QInv, [Next]_vars PROVE StatusInv'
  OBVIOUS
<1> USE NoTaskAssumption DEF QInv, TokenInv, StatusInv
<1>1. ASSUME NEW t \in Tasks, SubmitStore(t) PROVE StatusInv'
  <2>1. UNCHANGED queue /\ (\A s : Occurs(queue, s)' <=> Occurs(queue, s))
    BY <1>1 DEF SubmitStore, Occurs
  <2>2. /\ submit[t] = "none" /\ status[t] = "unborn"
        /\ ~ Occurs(queue, t) /\ (\A w \in Workers : job[w] # t)
        /\ submit' = [submit EXCEPT ![t] = "stored"]
        /\ status' = [status EXCEPT ![t] = "pending"]
        /\ stored' = stored \cup {t}
        /\ UNCHANGED <<pc, job, verdict, cancelFn, ctxDone, asked>>
    BY <1>1 DEF SubmitStore, SentOnce, BornIsSubmitted
  <2>3. ActiveIsStored' /\ BornIsSubmitted' /\ CanceledOnRequest'
    BY <2>2 DEF TypeOK, ActiveIsStored, BornIsSubmitted, CanceledOnRequest
  <2>4. UnstartedStatus' /\ PendingIsSomewhere'
    BY <2>1, <2>2 DEF TypeOK, UnstartedStatus, PendingIsSomewhere
  <2>5. RunningIsHeld' /\ HeldIsRunning'
    BY <2>2 DEF TypeOK, RunningIsHeld, HeldIsRunning, RunLabels
  <2>6. RegisteredWhileHeld' /\ VerdictOnRequest'
    BY <2>2 DEF RegisteredWhileHeld, VerdictOnRequest
  <2> QED BY <2>3, <2>4, <2>5, <2>6
<1>2. ASSUME NEW t \in Tasks, SubmitAnnounce(t) PROVE StatusInv'
  <2>1. UNCHANGED queue /\ (\A s : Occurs(queue, s)' <=> Occurs(queue, s))
    BY <1>2 DEF SubmitAnnounce, Occurs
  <2>2. /\ submit[t] = "stored"
        /\ submit' = [submit EXCEPT ![t] = "announced"]
        /\ UNCHANGED <<status, stored, pc, job, verdict, cancelFn, ctxDone, asked>>
    BY <1>2 DEF SubmitAnnounce
  <2> QED
    BY <2>1, <2>2
    DEF TypeOK, ActiveIsStored, BornIsSubmitted, UnstartedStatus,
        RunningIsHeld, HeldIsRunning, RegisteredWhileHeld, VerdictOnRequest,
        CanceledOnRequest, PendingIsSomewhere
<1>3. ASSUME NEW t \in Tasks, SubmitSend(t) PROVE StatusInv'
  <2>1. \A s : Occurs(queue', s) <=> Occurs(queue, s) \/ s = t
    BY <1>3, AppendOccurs DEF SubmitSend, TypeOK
  <2>2. /\ submit[t] = "announced"
        /\ submit' = [submit EXCEPT ![t] = "sent"]
        /\ UNCHANGED <<status, stored, pc, job, verdict, cancelFn, ctxDone, asked>>
    BY <1>3 DEF SubmitSend
  <2> QED
    BY <2>1, <2>2
    DEF TypeOK, ActiveIsStored, BornIsSubmitted, UnstartedStatus,
        RunningIsHeld, HeldIsRunning, RegisteredWhileHeld, VerdictOnRequest,
        CanceledOnRequest, PendingIsSomewhere
<1>4. ASSUME NEW w \in Workers, Receive(w) PROVE StatusInv'
  <2>1. /\ Head(queue) \in Tasks
        /\ \A s : Occurs(queue, s) <=> s = Head(queue) \/ Occurs(queue', s)
    BY <1>4, TailOccurs DEF Receive, TypeOK
  <2>2. /\ pc[w] = "idle"
        /\ pc' = [pc EXCEPT ![w] = "received"]
        /\ job' = [job EXCEPT ![w] = Head(queue)]
        /\ UNCHANGED <<status, stored, submit, verdict, cancelFn, ctxDone, asked>>
    BY <1>4 DEF Receive, Goto
  <2>3. ActiveIsStored' /\ BornIsSubmitted' /\ CanceledOnRequest'
    BY <2>2 DEF ActiveIsStored, BornIsSubmitted, CanceledOnRequest
  <2>4. /\ job'[w] = Head(queue) /\ pc'[w] = "received"
        /\ \A v \in Workers : v # w => job'[v] = job[v] /\ pc'[v] = pc[v]
    BY <2>1, <2>2 DEF TypeOK
  <2>5. UnstartedStatus'
    BY <2>1, <2>2, <2>4 DEF UnstartedStatus
  <2>6. PendingIsSomewhere'
    <3> SUFFICES ASSUME NEW t \in Tasks, status[t] = "pending",
                        submit[t] \notin {"stored", "announced"},
                        ~ Occurs(queue', t)
                 PROVE  \E v \in Workers : job'[v] = t /\ pc'[v] \in BeforeMark
      BY <2>2 DEF PendingIsSomewhere, Occurs
    <3>1. CASE t = Head(queue)
      BY <2>4, <3>1 DEF BeforeMark
    <3>2. CASE t # Head(queue)
      <4>1. PICK v \in Workers : job[v] = t /\ pc[v] \in BeforeMark
        BY <2>1, <3>2 DEF PendingIsSomewhere
      <4> QED BY <2>2, <2>4, <4>1 DEF BeforeMark
    <3> QED BY <3>1, <3>2
  <2>7. RunningIsHeld' /\ HeldIsRunning'
    BY <2>1, <2>2 DEF TypeOK, RunningIsHeld, HeldIsRunning, RunLabels
  <2>8. RegisteredWhileHeld' /\ VerdictOnRequest'
    BY <2>2 DEF TypeOK, RegisteredWhileHeld, VerdictOnRequest, WithCancelFn
  <2> QED BY <2>3, <2>5, <2>6, <2>7, <2>8
<1>5. ASSUME NEW w \in Workers, LoadTask(w) PROVE StatusInv'
  <2>1. job[w] \in Tasks
    BY <1>5 DEF LoadTask, TypeOK, IdleHasNoJob
  <2>2. \E l \in {"loaded", "idle"} : StatusMoves(w, l)
    BY <1>5, <2>1
    DEF LoadTask, Release, Goto, ActiveIsStored, Active, TypeOK, StatusMoves,
        WorkerMoves, AfterCall, InHandler, BeforeMark, RunLabels,
        WithCancelFn
  <2> QED BY <2>2, StatusMovesKeep DEF Labels
<1>6. ASSUME NEW w \in Workers, CheckCanceled(w) PROVE StatusInv'
  <2>1. job[w] \in Tasks
    BY <1>6 DEF CheckCanceled, TypeOK, IdleHasNoJob
  <2>2. \E l \in {"checked", "idle"} : StatusMoves(w, l)
    BY <1>6, <2>1
    DEF CheckCanceled, Release, Goto, TypeOK, StatusMoves, WorkerMoves,
        AfterCall, InHandler, BeforeMark, RunLabels, WithCancelFn
  <2> QED BY <2>2, StatusMovesKeep DEF Labels
<1>7. ASSUME NEW w \in Workers, StoreCancelFn(w) PROVE StatusInv'
  <2>1. job[w] \in Tasks
    BY <1>7 DEF StoreCancelFn, TypeOK, IdleHasNoJob
  <2>2. \E l \in {"registered"} : StatusMoves(w, l)
    BY <1>7, <2>1
    DEF StoreCancelFn, Goto, TypeOK, StatusMoves, WorkerMoves, AfterCall,
        InHandler, BeforeMark, RunLabels, WithCancelFn
  <2> QED BY <2>2, StatusMovesKeep DEF Labels
<1>8. ASSUME NEW w \in Workers, BroadcastRunning(w) PROVE StatusInv'
  <2>1. job[w] \in Tasks
    BY <1>8 DEF BroadcastRunning, TypeOK, IdleHasNoJob
  <2>2. \E l \in {"dispatch"} : StatusMoves(w, l)
    BY <1>8, <2>1
    DEF BroadcastRunning, Goto, RegisteredWhileHeld, TypeOK, StatusMoves,
        WorkerMoves, AfterCall, InHandler, BeforeMark, RunLabels,
        WithCancelFn
  <2> QED BY <2>2, StatusMovesKeep DEF Labels
<1>9. ASSUME NEW w \in Workers, CallHandler(w) PROVE StatusInv'
  <2>1. job[w] \in Tasks
    BY <1>9 DEF CallHandler, TypeOK, IdleHasNoJob
  <2>2. \E l \in {"executing"} : StatusMoves(w, l)
    BY <1>9, <2>1
    DEF CallHandler, Goto, RegisteredWhileHeld, TypeOK, StatusMoves,
        WorkerMoves, AfterCall, InHandler, BeforeMark, RunLabels,
        WithCancelFn
  <2> QED BY <2>2, StatusMovesKeep DEF Labels
<1>10. ASSUME NEW w \in Workers, NoHandler(w) PROVE StatusInv'
  <2>1. job[w] \in Tasks
    BY <1>10 DEF NoHandler, TypeOK, IdleHasNoJob
  <2>2. \E l \in {"returned"} : StatusMoves(w, l)
    BY <1>10, <2>1
    DEF NoHandler, Goto, RegisteredWhileHeld, TypeOK, StatusMoves,
        WorkerMoves, AfterCall, InHandler, BeforeMark, RunLabels,
        WithCancelFn
  <2> QED BY <2>2, StatusMovesKeep DEF Labels
<1>11. ASSUME NEW w \in Workers, ReportProgress(w) PROVE StatusInv'
  <2>1. job[w] \in Tasks
    BY <1>11 DEF ReportProgress, TypeOK, IdleHasNoJob
  <2>2. \E l \in {"progress"} : StatusMoves(w, l)
    BY <1>11, <2>1
    DEF ReportProgress, Goto, RegisteredWhileHeld, TypeOK, StatusMoves,
        WorkerMoves, AfterCall, InHandler, BeforeMark, RunLabels,
        WithCancelFn
  <2> QED BY <2>2, StatusMovesKeep DEF Labels
<1>12. ASSUME NEW w \in Workers, BroadcastProgress(w) PROVE StatusInv'
  <2>1. job[w] \in Tasks
    BY <1>12 DEF BroadcastProgress, TypeOK, IdleHasNoJob
  <2>2. \E l \in {"executing"} : StatusMoves(w, l)
    BY <1>12, <2>1
    DEF BroadcastProgress, Goto, RegisteredWhileHeld, TypeOK, StatusMoves,
        WorkerMoves, AfterCall, InHandler, BeforeMark, RunLabels,
        WithCancelFn
  <2> QED BY <2>2, StatusMovesKeep DEF Labels
<1>13. ASSUME NEW w \in Workers, HandlerReturns(w) PROVE StatusInv'
  <2>1. job[w] \in Tasks
    BY <1>13 DEF HandlerReturns, TypeOK, IdleHasNoJob
  <2>2. \E l \in {"returned"} : StatusMoves(w, l)
    BY <1>13, <2>1
    DEF HandlerReturns, Goto, Verdict, RegisteredWhileHeld, TypeOK,
        StatusMoves, WorkerMoves, AfterCall, InHandler, BeforeMark,
        RunLabels, WithCancelFn
  <2> QED BY <2>2, StatusMovesKeep DEF Labels
<1>14. ASSUME NEW w \in Workers, BroadcastVerdict(w) PROVE StatusInv'
  <2>1. job[w] \in Tasks
    BY <1>14 DEF BroadcastVerdict, TypeOK, IdleHasNoJob
  <2>2. \E l \in {"closing"} : StatusMoves(w, l)
    BY <1>14, <2>1
    DEF BroadcastVerdict, Goto, RegisteredWhileHeld, TypeOK, StatusMoves,
        WorkerMoves, AfterCall, InHandler, BeforeMark, RunLabels,
        WithCancelFn
  <2> QED BY <2>2, StatusMovesKeep DEF Labels
<1>15. ASSUME NEW w \in Workers, RemoveCancelFn(w) PROVE StatusInv'
  <2>1. job[w] \in Tasks
    BY <1>15 DEF RemoveCancelFn, TypeOK, IdleHasNoJob
  <2>2. \E l \in {"idle"} : StatusMoves(w, l)
    BY <1>15, <2>1
    DEF RemoveCancelFn, Release, Goto, TypeOK, StatusMoves, WorkerMoves,
        AfterCall, InHandler, BeforeMark, RunLabels, WithCancelFn
  <2> QED BY <2>2, StatusMovesKeep DEF Labels
<1>16. ASSUME NEW w \in Workers, MarkRunning(w) PROVE StatusInv'
  <2>1. UNCHANGED queue /\ (\A s : Occurs(queue, s)' <=> Occurs(queue, s))
    BY <1>16 DEF MarkRunning, Occurs
  <2>2. /\ job[w] \in Tasks
        /\ pc[w] = "registered"
        /\ pc' = [pc EXCEPT ![w] = "marked"]
        /\ status' = IF job[w] \in stored
                     THEN [status EXCEPT ![job[w]] = "running"] ELSE status
        /\ UNCHANGED <<stored, submit, job, verdict, cancelFn, ctxDone, asked>>
    BY <1>16 DEF MarkRunning, Goto, UpdateStatus, TypeOK, IdleHasNoJob
  <2>3. /\ submit[job[w]] = "sent"
        /\ ~ Occurs(queue, job[w])
        /\ \A v \in Workers : job[v] = job[w] => v = w
    BY <2>2 DEF SentOnce, QueuedOrHeld, OneHolder
  <2>4. ActiveIsStored' /\ BornIsSubmitted'
    BY <2>2, <2>3 DEF TypeOK, ActiveIsStored, BornIsSubmitted
  <2>5. UnstartedStatus' /\ CanceledOnRequest'
    BY <2>1, <2>2, <2>3 DEF TypeOK, UnstartedStatus, CanceledOnRequest, BeforeMark
  <2>6. RunningIsHeld'
    BY <2>2, <2>3 DEF TypeOK, RunningIsHeld, RunLabels
  <2>7. HeldIsRunning'
    BY <2>2, <2>3 DEF TypeOK, HeldIsRunning, RunLabels
  <2>8. RegisteredWhileHeld' /\ VerdictOnRequest'
    BY <2>2 DEF TypeOK, RegisteredWhileHeld, VerdictOnRequest, WithCancelFn
  <2>9. PendingIsSomewhere'
    BY <2>1, <2>2, <2>3
    DEF TypeOK, PendingIsSomewhere, BeforeMark, ActiveIsStored, Active
  <2> QED BY <2>4, <2>5, <2>6, <2>7, <2>8, <2>9
<1>17. ASSUME NEW w \in Workers, RecordVerdict(w) PROVE StatusInv'
  <2>1. UNCHANGED queue /\ (\A s : Occurs(queue, s)' <=> Occurs(queue, s))
    BY <1>17 DEF RecordVerdict, Occurs
  <2>2. /\ job[w] \in Tasks
        /\ pc[w] = "returned"
        /\ pc' = [pc EXCEPT ![w] = "settled"]
        /\ status' = IF job[w] \in stored
                     THEN [status EXCEPT ![job[w]] = verdict[w]] ELSE status
        /\ UNCHANGED <<stored, submit, job, verdict, cancelFn, ctxDone, asked>>
    BY <1>17 DEF RecordVerdict, Goto, UpdateStatus, TypeOK, IdleHasNoJob
  <2>3. /\ submit[job[w]] = "sent"
        /\ ~ Occurs(queue, job[w])
        /\ \A v \in Workers : job[v] = job[w] => v = w
    BY <2>2 DEF SentOnce, QueuedOrHeld, OneHolder
  <2>4. verdict[w] \in Finished
    BY DEF TypeOK
  <2>5. ActiveIsStored' /\ BornIsSubmitted'
    BY <2>2, <2>3, <2>4
    DEF TypeOK, ActiveIsStored, BornIsSubmitted, Active, Finished
  <2>6. UnstartedStatus'
    <3>1. \A v \in Workers : pc'[v] \in BeforeMark => v # w /\ job'[v] # job[w]
      BY <2>2, <2>3 DEF TypeOK, BeforeMark
    <3> QED BY <2>1, <2>2, <2>3, <3>1 DEF TypeOK, UnstartedStatus
  <2>7. CanceledOnRequest'
    BY <2>2 DEF TypeOK, CanceledOnRequest, VerdictOnRequest
  <2>8. RunningIsHeld'
    <3> SUFFICES ASSUME NEW t \in Tasks, status'[t] = "running"
                 PROVE  \E v \in Workers : job'[v] = t /\ pc'[v] \in RunLabels
      BY DEF RunningIsHeld
    <3>1. status[t] = "running" /\ (t = job[w] => job[w] \notin stored)
      BY <2>2, <2>4 DEF TypeOK, Finished
    <3>2. t # job[w]
      BY <3>1 DEF ActiveIsStored, Active
    <3>3. PICK v \in Workers : job[v] = t /\ pc[v] \in RunLabels
      BY <3>1 DEF RunningIsHeld
    <3> QED BY <2>2, <3>2, <3>3 DEF TypeOK
  <2>9. HeldIsRunning'
    BY <2>2, <2>3 DEF TypeOK, HeldIsRunning, RunLabels
  <2>10. RegisteredWhileHeld' /\ VerdictOnRequest'
    BY <2>2 DEF TypeOK, RegisteredWhileHeld, VerdictOnRequest, WithCancelFn
  <2>11. PendingIsSomewhere'
    <3> SUFFICES ASSUME NEW t \in Tasks, status'[t] = "pending",
                        submit[t] \notin {"stored", "announced"},
                        ~ Occurs(queue, t)
                 PROVE  \E v \in Workers : job'[v] = t /\ pc'[v] \in BeforeMark
      BY <2>1, <2>2 DEF PendingIsSomewhere
    <3>1. status[t] = "pending"
      BY <2>2, <2>4 DEF TypeOK, Finished
    <3>2. PICK v \in Workers : job[v] = t /\ pc[v] \in BeforeMark
      BY <3>1 DEF PendingIsSomewhere
    <3> QED BY <2>2, <3>2 DEF TypeOK, BeforeMark
  <2> QED BY <2>5, <2>6, <2>7, <2>8, <2>9, <2>10, <2>11
<1>18. ASSUME NEW t \in Tasks, NEW u \in Users, CancelTaskForUser(t, u)
      PROVE  StatusInv'
  <2>1. UNCHANGED queue /\ (\A s : Occurs(queue, s)' <=> Occurs(queue, s))
    BY <1>18 DEF CancelTaskForUser, Occurs
  <2>2. /\ t \in stored
        /\ asked' = asked \cup {t}
        /\ UNCHANGED <<stored, submit, pc, job, verdict, cancelFn>>
        /\ \/ /\ status[t] = "pending" /\ UNCHANGED ctxDone
              /\ status' = [status EXCEPT ![t] = "canceled"]
           \/ /\ UNCHANGED status
              /\ ctxDone \subseteq ctxDone' /\ ctxDone' \subseteq ctxDone \cup {t}
    BY <1>18 DEF CancelTaskForUser, CancelPending, CancelRunning
  <2>3. ActiveIsStored' /\ BornIsSubmitted' /\ CanceledOnRequest'
    BY <2>2
    DEF TypeOK, ActiveIsStored, BornIsSubmitted, CanceledOnRequest, Active
  <2>4. UnstartedStatus'
    <3>1. \A s \in Tasks : status[s] \in {"pending", "canceled"} =>
                             status'[s] \in {"pending", "canceled"}
      BY <2>2 DEF TypeOK
    <3>2. \A w \in Workers : pc[w] \in BeforeMark => job[w] \in Tasks
      BY DEF TypeOK, IdleHasNoJob, BeforeMark
    <3> QED BY <2>1, <2>2, <3>1, <3>2 DEF UnstartedStatus
  <2>5. RunningIsHeld' /\ HeldIsRunning'
    BY <2>2 DEF TypeOK, RunningIsHeld, HeldIsRunning
  <2>6. RegisteredWhileHeld' /\ VerdictOnRequest'
    BY <2>2 DEF RegisteredWhileHeld, VerdictOnRequest
  <2>7. PendingIsSomewhere'
    BY <2>1, <2>2 DEF TypeOK, PendingIsSomewhere
  <2> QED BY <2>3, <2>4, <2>5, <2>6, <2>7
<1>19. ASSUME NEW u \in Users, ClearFinishedTasksForUser(u) PROVE StatusInv'
  <2>1. UNCHANGED queue /\ (\A s : Occurs(queue, s)' <=> Occurs(queue, s))
    BY <1>19 DEF ClearFinishedTasksForUser, Occurs
  <2>2. /\ stored' \subseteq stored
        /\ \A t \in stored : status[t] \in Active => t \in stored'
        /\ UNCHANGED <<status, submit, pc, job, verdict, cancelFn, ctxDone, asked>>
    BY <1>19 DEF ClearFinishedTasksForUser, Active, Finished
  <2> QED
    BY <2>1, <2>2
    DEF ActiveIsStored, BornIsSubmitted, UnstartedStatus, RunningIsHeld,
        HeldIsRunning, RegisteredWhileHeld, VerdictOnRequest,
        CanceledOnRequest, PendingIsSomewhere
<1>20. ASSUME CleanupExpiredTasks PROVE StatusInv'
  <2>1. UNCHANGED queue /\ (\A s : Occurs(queue, s)' <=> Occurs(queue, s))
    BY <1>20 DEF CleanupExpiredTasks, Occurs
  <2>2. /\ stored' \subseteq stored
        /\ \A t \in stored : status[t] \in Active => t \in stored'
        /\ UNCHANGED <<status, submit, pc, job, verdict, cancelFn, ctxDone, asked>>
    BY <1>20 DEF CleanupExpiredTasks, Active, Finished
  <2> QED
    BY <2>1, <2>2
    DEF ActiveIsStored, BornIsSubmitted, UnstartedStatus, RunningIsHeld,
        HeldIsRunning, RegisteredWhileHeld, VerdictOnRequest,
        CanceledOnRequest, PendingIsSomewhere
<1>21. CASE UNCHANGED vars
  BY <1>21
  DEF vars, ActiveIsStored, BornIsSubmitted, UnstartedStatus, RunningIsHeld,
      HeldIsRunning, RegisteredWhileHeld, VerdictOnRequest,
      CanceledOnRequest, PendingIsSomewhere, Occurs
<1> QED
  BY <1>1, <1>2, <1>3, <1>4, <1>5, <1>6, <1>7, <1>8, <1>9, <1>10, <1>11,
     <1>12, <1>13, <1>14, <1>15, <1>16, <1>17, <1>18, <1>19, <1>20, <1>21
  DEF Next, SubmitStep, StartStep, FinishStep, ProgressStep, Request

(* The inductive invariant of the queue.                                   *)
THEOREM QueueInvariant == Spec => []QInv
<1>1. Init => QInv
  BY TokenInit, StatusInit DEF QInv
<1>2. QInv /\ [Next]_vars => QInv'
  BY TokenStep, StatusStep DEF QInv
<1> QED
  BY <1>1, <1>2, PTL DEF Spec

(* A cancel of a running task always finds the cancel function to call.    *)
THEOREM RunningCancelable == Spec => []RunningIsCancelable
<1>1. QInv => RunningIsCancelable
  BY DEF QInv, StatusInv, RunningIsCancelable, RunningIsHeld,
         RegisteredWhileHeld, RunLabels, WithCancelFn
<1> QED
  BY <1>1, QueueInvariant, PTL

(* No pending task is forgotten: Submit, the channel or a worker has it.   *)
THEOREM PendingOnItsWay == Spec => []PendingIsOnItsWay
<1>1. QInv => PendingIsOnItsWay
  BY DEF QInv, StatusInv, PendingIsOnItsWay, PendingIsSomewhere, InQueue,
         HeldBy, Occurs
<1> QED
  BY <1>1, QueueInvariant, PTL

(* Clearing and cleanup never remove a pending or running task.            *)
THEOREM ActiveStored == Spec => []ActiveIsStored
<1>1. QInv => ActiveIsStored
  BY DEF QInv, StatusInv
<1> QED
  BY <1>1, QueueInvariant, PTL

(* No task ends up canceled that nobody asked to cancel.                   *)
THEOREM CanceledAsked == Spec => []CanceledOnRequest
<1>1. QInv => CanceledOnRequest
  BY DEF QInv, StatusInv
<1> QED
  BY <1>1, QueueInvariant, PTL

(* Once its handler was called, the finished status of a task is final.    *)
THEOREM FinalVerdict == Spec => VerdictIsFinal
<1> DEFINE Kept == \A t \in Tasks :
             status[t] \in Finished /\ status'[t] # status[t] =>
                status[t] = "canceled" /\ runs[t] = 0
<1>1. QInv /\ [Next]_vars => [Kept]_vars
  <2> SUFFICES ASSUME QInv, Next, NEW t \in Tasks,
                      status[t] \in Finished, status'[t] # status[t]
               PROVE  status[t] = "canceled" /\ runs[t] = 0
    OBVIOUS
  <2> USE DEF QInv, TokenInv, StatusInv, Finished
  <2>1. ASSUME NEW s \in Tasks, SubmitStore(s) PROVE FALSE
    BY <2>1 DEF SubmitStore, BornIsSubmitted, TypeOK
  <2>2. ASSUME NEW w \in Workers, MarkRunning(w)
        PROVE  status[t] = "canceled" /\ runs[t] = 0
    <3>1. t = job[w] /\ pc[w] = "registered"
      BY <2>2 DEF MarkRunning, UpdateStatus, TypeOK
    <3>2. status[t] = "canceled"
      BY <3>1 DEF UnstartedStatus, BeforeMark
    <3>3. runs[t] = 0
      BY <3>1 DEF CalledOnce, AfterCall, InHandler
    <3> QED BY <3>2, <3>3
  <2>3. ASSUME NEW w \in Workers, RecordVerdict(w) PROVE FALSE
    BY <2>3 DEF RecordVerdict, UpdateStatus, HeldIsRunning, RunLabels, TypeOK
  <2>4. ASSUME NEW s \in Tasks, NEW u \in Users, CancelTaskForUser(s, u)
        PROVE  FALSE
    BY <2>4 DEF CancelTaskForUser, CancelPending, CancelRunning, TypeOK
  <2>5. CASE \/ \E s \in Tasks : SubmitAnnounce(s) \/ SubmitSend(s)
             \/ \E u \in Users : ClearFinishedTasksForUser(u)
             \/ CleanupExpiredTasks
    BY <2>5 DEF SubmitAnnounce, SubmitSend, ClearFinishedTasksForUser,
                CleanupExpiredTasks
  <2>6. ASSUME NEW w \in Workers,
               ProgressStep(w) \/ (StartStep(w) /\ ~ MarkRunning(w))
               \/ (FinishStep(w) /\ ~ RecordVerdict(w))
        PROVE  FALSE
    BY <2>6
    DEF ProgressStep, StartStep, FinishStep, Receive, LoadTask, CheckCanceled,
        StoreCancelFn, BroadcastRunning, CallHandler, NoHandler,
        ReportProgress, BroadcastProgress, HandlerReturns, BroadcastVerdict,
        RemoveCancelFn
  <2> QED
    BY <2>1, <2>2, <2>3, <2>4, <2>5, <2>6 DEF Next, SubmitStep, Request
<1> QED
  BY <1>1, QueueInvariant, PTL DEF Spec, VerdictIsFinal

-----------------------------------------------------------------------------
(* The refinement of TaskLifecycle, without its fairness: every step of    *)
(* the queue moves at most one task, and by one of the promised moves.     *)
PhaseMap == [t \in Tasks |-> Phase(t)]

(* The phase of a task whose worker is at label l.                         *)
StageAt(l) ==
    IF l \in InHandler THEN "executing" ELSE IF l \in BeforeCall THEN "waiting" ELSE "settled"

LEMMA PhaseByPlace ==
    ASSUME QInv, NEW t \in Tasks
    PROVE  /\ submit[t] = "none" => Phase(t) = "new"
           /\ submit[t] \in {"stored", "announced"} \/ Occurs(queue, t) => Phase(t) = "waiting"
           /\ \A w \in Workers : job[w] = t => Phase(t) = StageAt(pc[w])
           /\ submit[t] = "sent" /\ ~ Occurs(queue, t) /\ (\A w \in Workers : job[w] # t)
                => Phase(t) = "settled"
<1> USE DEF QInv, TokenInv
<1>1. InQueue(t) <=> Occurs(queue, t)
  BY DEF InQueue, Occurs
<1>2. submit[t] = "none" => Phase(t) = "new"
  BY DEF Phase
<1>3. ASSUME submit[t] \in {"stored", "announced"} \/ Occurs(queue, t)
      PROVE  Phase(t) = "waiting"
  <2>1. \A w \in Workers : job[w] # t
    BY <1>3 DEF SentOnce, QueuedOrHeld
  <2>2. submit[t] # "none"
    BY <1>3 DEF SentOnce
  <2> QED BY <1>1, <1>3, <2>1, <2>2 DEF Phase, HeldBy
<1>4. ASSUME NEW w \in Workers, job[w] = t PROVE Phase(t) = StageAt(pc[w])
  <2>1. /\ submit[t] = "sent" /\ ~ Occurs(queue, t)
        /\ \A v \in Workers : job[v] = t => v = w
    BY <1>4 DEF SentOnce, QueuedOrHeld, OneHolder
  <2> QED BY <1>1, <1>4, <2>1 DEF Phase, HeldBy, StageAt
<1>5. ASSUME submit[t] = "sent", ~ Occurs(queue, t), \A w \in Workers : job[w] # t
      PROVE  Phase(t) = "settled"
  BY <1>1, <1>5 DEF Phase, HeldBy
<1> QED BY <1>2, <1>3, <1>4, <1>5

(* What a step does to the phases: nothing, or one promised move.          *)
Moves(t, from, to) ==
    /\ t \in Tasks
    /\ Phase(t) = from /\ Phase(t)' = to
    /\ \A s \in Tasks : s # t => Phase(s)' = Phase(s)

Stays == \A s \in Tasks : Phase(s)' = Phase(s)

LEMMA WorkerMovesPhase ==
    ASSUME QInv, QInv', NEW w \in Workers, NEW l \in Labels, WorkerMoves(w, l)
    PROVE  \E t \in Tasks : t = job[w] /\ Moves(t, StageAt(pc[w]), StageAt(l))
<1> USE NoTaskAssumption DEF QInv, TokenInv
<1>1. /\ job \in [Workers -> Tasks \cup {NoTask}]
      /\ pc \in [Workers -> Labels]
      /\ job[w] \in Tasks
  BY DEF TypeOK, IdleHasNoJob, WorkerMoves
<1>2. /\ UNCHANGED <<submit, queue>>
      /\ \A v \in Workers : v # w => job'[v] = job[v] /\ pc'[v] = pc[v]
      /\ pc'[w] = l
      /\ job'[w] = IF l = "idle" THEN NoTask ELSE job[w]
      /\ \A t : Occurs(queue, t)' <=> Occurs(queue, t)
  BY <1>1 DEF WorkerMoves, Occurs
<1>3. PICK r \in Tasks : r = job[w]
  BY <1>1
<1>6. Phase(r) = StageAt(pc[w])
  BY <1>3, PhaseByPlace
<1>4. ASSUME NEW t \in Tasks, t = job[w] PROVE Phase(t)' = StageAt(l)
  <2>1. CASE l # "idle"
    <3>1. job'[w] = t
      BY <1>2, <1>4, <2>1
    <3>2. submit'[t] = "sent" /\ ~ Occurs(queue', t) /\ \A v \in Workers : job'[v] = t => v = w
      BY <3>1 DEF SentOnce, QueuedOrHeld, OneHolder
    <3> QED BY <1>2, <3>1, <3>2 DEF Phase, HeldBy, StageAt, InQueue, Occurs
  <2>2. CASE l = "idle"
    <3>1. submit[t] = "sent" /\ ~ Occurs(queue, t) /\ \A v \in Workers : job[v] = t => v = w
      BY <1>1, <1>4 DEF SentOnce, QueuedOrHeld, OneHolder
    <3>2. \A v \in Workers : job'[v] # t
      BY <1>2, <1>4, <2>2, <3>1
    <3>3. Phase(t)' = "settled"
      BY <1>2, <3>1, <3>2 DEF Phase, HeldBy, InQueue, Occurs
    <3> QED BY <2>2, <3>3 DEF StageAt, InHandler, BeforeCall, BeforeMark
  <2> QED BY <2>1, <2>2
<1>5. ASSUME NEW t \in Tasks, t # job[w] PROVE Phase(t)' = Phase(t)
  <2>1. \A v \in Workers : HeldBy(v, t)' <=> HeldBy(v, t)
    BY <1>1, <1>2, <1>5 DEF HeldBy
  <2>2. \A v \in Workers : HeldBy(v, t) => pc'[v] = pc[v]
    BY <1>2, <1>5 DEF HeldBy
  <2>3. InQueue(t)' <=> InQueue(t)
    BY <1>2 DEF InQueue
  <2> QED BY <1>2, <2>1, <2>2, <2>3 DEF Phase
<1>7. Phase(r)' = StageAt(l)
  BY <1>3, <1>4
<1>8. \A s \in Tasks : s # r => Phase(s)' = Phase(s)
  BY <1>3, <1>5
<1> QED BY <1>3, <1>6, <1>7, <1>8 DEF Moves

(* While a worker is about to call a handler, another slot is in use by at *)
(* most every other worker.                                                *)
LEMMA SlotIsFree ==
    ASSUME QInv, NEW w \in Workers, pc[w] \notin InHandler
    PROVE  Cardinality({t \in Tasks : Phase(t) = "executing"}) < Cardinality(Workers)
<1> USE DEF QInv, TokenInv
<1> DEFINE E == {t \in Tasks : Phase(t) = "executing"}
           V == Workers \ {w}
           f == [t \in E |-> CHOOSE v \in Workers : job[v] = t /\ pc[v] \in InHandler]
<1>1. ASSUME NEW t \in E PROVE f[t] \in V /\ job[f[t]] = t
  <2>1. \E v \in Workers : job[v] = t /\ pc[v] \in InHandler
    BY DEF Phase, HeldBy
  <2> QED BY <2>1
<1>2. f \in Injection(E, V)
  <2>1. f \in [E -> V]
    BY <1>1
  <2>2. \A s, t \in E : f[s] = f[t] => s = t
    BY <1>1
  <2> HIDE DEF E, V, f
  <2> QED BY <2>1, <2>2 DEF Injection, IsInjective
<1>3. /\ IsFiniteSet(V)
      /\ Cardinality(V) = Cardinality(Workers) - 1
      /\ Cardinality(Workers) \in Nat
  BY WorkersAssumption, FS_RemoveElement, FS_CardinalityType
<1> HIDE DEF E, V, f
<1>4. IsFiniteSet(E) /\ Cardinality(E) <= Cardinality(V)
  BY <1>2, <1>3, FS_Injection
<1>5. Cardinality(E) \in Nat
  BY <1>4, FS_CardinalityType
<1>6. Cardinality(E) < Cardinality(Workers)
  BY <1>3, <1>4, <1>5
<1> QED BY <1>6 DEF E

(* A step that moves one task is that task's action in TaskLifecycle.      *)
LEMMA MovesIsMove ==
    ASSUME NEW t \in Tasks, NEW from, NEW to, Moves(t, from, to)
    PROVE  Lifecycle!Move(t, from, to)
<1>1. PhaseMap' = [PhaseMap EXCEPT ![t] = to] /\ PhaseMap[t] = from
  BY DEF Moves, PhaseMap
<1> QED BY <1>1 DEF Lifecycle!Move, PhaseMap

LEMMA StaysIsStutter == Stays => UNCHANGED PhaseMap
  BY DEF Stays, PhaseMap

LEMMA LifecycleStep ==
    ASSUME QInv, QInv', [Next]_vars
    PROVE  Lifecycle!Next \/ UNCHANGED PhaseMap
<1> USE NoTaskAssumption DEF QInv, TokenInv
<1> DEFINE Promised == \/ Stays
                       \/ \E t \in Tasks : \/ Moves(t, "new", "waiting")
                                           \/ Moves(t, "waiting", "settled")
                                           \/ Moves(t, "executing", "settled")
                                           \/ /\ Moves(t, "waiting", "executing")
                                              /\ \E w \in Workers : pc[w] \notin InHandler
<1>0. /\ job \in [Workers -> Tasks \cup {NoTask}]
      /\ pc \in [Workers -> Labels]
      /\ submit \in [Tasks -> {"none", "stored", "announced", "sent"}]
      /\ queue \in Seq(Tasks)
  BY DEF TypeOK
<1>1. ASSUME NEW t \in Tasks, SubmitStore(t) PROVE Promised
  <2>1. /\ submit[t] = "none" /\ submit' = [submit EXCEPT ![t] = "stored"]
        /\ UNCHANGED <<queue, pc, job>>
    BY <1>1 DEF SubmitStore
  <2>2. Phase(t) = "new" /\ Phase(t)' = "waiting"
    <3>1. submit'[t] = "stored"
      BY <1>0, <2>1
    <3>2. ~ Occurs(queue, t) /\ \A w \in Workers : job[w] # t
      BY <2>1 DEF SentOnce
    <3> QED BY <2>1, <3>1, <3>2 DEF Phase, HeldBy
  <2>3. \A s \in Tasks : s # t => Phase(s)' = Phase(s)
    BY <1>0, <2>1 DEF Phase, HeldBy, InQueue
  <2> QED BY <2>2, <2>3 DEF Moves
<1>2. ASSUME NEW t \in Tasks, SubmitAnnounce(t) PROVE Promised
  <2>1. /\ submit[t] = "stored" /\ submit' = [submit EXCEPT ![t] = "announced"]
        /\ UNCHANGED <<queue, pc, job>>
    BY <1>2 DEF SubmitAnnounce
  <2>2. ASSUME NEW s \in Tasks PROVE Phase(s)' = Phase(s)
    BY <1>0, <2>1 DEF Phase, HeldBy, InQueue
  <2> QED BY <2>2 DEF Stays
<1>3. ASSUME NEW t \in Tasks, SubmitSend(t) PROVE Promised
  <2>1. /\ submit[t] = "announced" /\ submit' = [submit EXCEPT ![t] = "sent"]
        /\ queue' = Append(queue, t)
        /\ UNCHANGED <<pc, job>>
    BY <1>3 DEF SubmitSend
  <2>2. \A s : Occurs(queue', s) <=> Occurs(queue, s) \/ s = t
    BY <1>0, <2>1, AppendOccurs
  <2>3. Phase(t) = "waiting"
    BY <2>1, PhaseByPlace
  <2>4. Phase(t)' = "waiting"
    <3>1. submit'[t] = "sent" /\ Occurs(queue', t) /\ \A w \in Workers : job[w] # t
      BY <1>0, <2>1, <2>2 DEF SentOnce
    <3> QED BY <2>1, <3>1 DEF Phase, HeldBy, InQueue, Occurs
  <2>5. ASSUME NEW s \in Tasks, s # t PROVE Phase(s)' = Phase(s)
    <3>1. InQueue(s)' <=> InQueue(s)
      BY <2>2, <2>5 DEF InQueue, Occurs
    <3> QED BY <1>0, <2>1, <2>5, <3>1 DEF Phase, HeldBy
  <2> QED BY <2>3, <2>4, <2>5 DEF Stays
<1>4. ASSUME NEW w \in Workers, Receive(w) PROVE Promised
  <2>1. /\ pc[w] = "idle" /\ queue # <<>>
        /\ queue' = Tail(queue)
        /\ job' = [job EXCEPT ![w] = Head(queue)]
        /\ pc' = [pc EXCEPT ![w] = "received"]
        /\ UNCHANGED submit
    BY <1>4 DEF Receive, Goto
  <2>2. PICK h \in Tasks : h = Head(queue)
    BY <1>0, <2>1, TailOccurs
  <2>3. /\ \A s : Occurs(queue, s) <=> s = h \/ Occurs(queue', s)
        /\ ~ Occurs(queue', h)
    BY <1>0, <2>1, <2>2, TailOccurs
  <2>4. job[w] = NoTask /\ submit[h] = "sent" /\ \A v \in Workers : job[v] # h
    BY <2>1, <2>3 DEF IdleHasNoJob, SentOnce, QueuedOrHeld
  <2>5. Phase(h) = "waiting"
    BY <2>3, PhaseByPlace
  <2>6. Phase(h)' = "waiting"
    <3>1. /\ job'[w] = h /\ pc'[w] = "received"
          /\ \A v \in Workers : v # w => job'[v] # h
      BY <1>0, <2>1, <2>2, <2>4
    <3> QED
      BY <2>1, <2>4, <3>1 DEF Phase, HeldBy, InHandler, BeforeCall, BeforeMark
  <2>7. ASSUME NEW s \in Tasks, s # h PROVE Phase(s)' = Phase(s)
    <3>1. InQueue(s)' <=> InQueue(s)
      BY <2>3, <2>7 DEF InQueue, Occurs
    <3>2. \A v \in Workers : HeldBy(v, s)' <=> HeldBy(v, s)
      BY <1>0, <2>1, <2>2, <2>4, <2>7 DEF HeldBy
    <3>3. \A v \in Workers : HeldBy(v, s) => pc'[v] = pc[v]
      BY <1>0, <2>1, <2>4 DEF HeldBy
    <3> QED BY <2>1, <3>1, <3>2, <3>3 DEF Phase
  <2> QED BY <2>5, <2>6, <2>7 DEF Stays
<1>5. ASSUME NEW w \in Workers,
             StartStep(w) \/ ProgressStep(w) \/ FinishStep(w), ~ Receive(w)
      PROVE  Promised
  <2>1. PICK l \in Labels :
          /\ WorkerMoves(w, l)
          /\ \/ StageAt(l) = StageAt(pc[w])
             \/ StageAt(pc[w]) = "waiting" /\ StageAt(l) = "settled"
             \/ StageAt(pc[w]) = "executing" /\ StageAt(l) = "settled"
             \/ StageAt(pc[w]) = "waiting" /\ StageAt(l) = "executing"
    <3> DEFINE P(l) == /\ WorkerMoves(w, l)
                       /\ \/ StageAt(l) = StageAt(pc[w])
                          \/ StageAt(pc[w]) = "waiting" /\ StageAt(l) = "settled"
                          \/ StageAt(pc[w]) = "executing" /\ StageAt(l) = "settled"
                          \/ StageAt(pc[w]) = "waiting" /\ StageAt(l) = "executing"
    <3> USE DEF WorkerMoves, Release, Goto, AfterCall, StageAt, InHandler, BeforeCall,
                BeforeMark
    <3>1. LoadTask(w) => P("loaded") \/ P("idle")
      BY DEF LoadTask
    <3>2. CheckCanceled(w) => P("checked") \/ P("idle")
      BY DEF CheckCanceled
    <3>3. StoreCancelFn(w) => P("registered")
      BY DEF StoreCancelFn
    <3>4. MarkRunning(w) => P("marked")
      BY DEF MarkRunning
    <3>5. BroadcastRunning(w) => P("dispatch")
      BY DEF BroadcastRunning
    <3>6. CallHandler(w) => P("executing")
      BY DEF CallHandler
    <3>7. NoHandler(w) => P("returned")
      BY DEF NoHandler
    <3>8. ProgressStep(w) => P("progress") \/ P("executing")
      BY DEF ProgressStep, ReportProgress, BroadcastProgress
    <3>9. HandlerReturns(w) => P("returned")
      BY DEF HandlerReturns
    <3>10. RecordVerdict(w) => P("settled")
      BY DEF RecordVerdict
    <3>11. BroadcastVerdict(w) => P("closing")
      BY DEF BroadcastVerdict
    <3>12. RemoveCancelFn(w) => P("idle")
      BY DEF RemoveCancelFn
    <3> HIDE DEF P
    <3>13. \E l \in Labels : P(l)
      BY <1>5, <3>1, <3>2, <3>3, <3>4, <3>5, <3>6, <3>7, <3>8, <3>9, <3>10, <3>11, <3>12
      DEF Labels, StartStep, FinishStep
    <3> QED BY <3>13 DEF P
  <2>2. PICK a, b : a = StageAt(pc[w]) /\ b = StageAt(l)
    OBVIOUS
  <2>3. PICK t \in Tasks : t = job[w] /\ Moves(t, a, b)
    <3>1. PICK t \in Tasks : t = job[w] /\ Moves(t, StageAt(pc[w]), StageAt(l))
      BY <2>1, WorkerMovesPhase
    <3> QED BY <2>2, <3>1 DEF Moves
  <2>4. a = "waiting" => pc[w] \notin InHandler
    BY <2>2 DEF StageAt
  <2>5. a = b => Stays
    BY <2>3 DEF Moves, Stays
  <2> QED BY <2>1, <2>2, <2>3, <2>4, <2>5
<1>6. ASSUME Request \/ UNCHANGED vars PROVE Promised
  <2>1. UNCHANGED <<submit, queue, pc, job>>
    BY <1>6
    DEF Request, CancelTaskForUser, ClearFinishedTasksForUser, CleanupExpiredTasks, vars
  <2>2. ASSUME NEW s \in Tasks PROVE Phase(s)' = Phase(s)
    BY <2>1 DEF Phase, HeldBy, InQueue
  <2> QED BY <2>2 DEF Stays
<1>7. Promised
  BY <1>1, <1>2, <1>3, <1>4, <1>5, <1>6 DEF Next, SubmitStep, StartStep
<1>8. CASE Stays
  BY <1>8, StaysIsStutter
<1>9. ASSUME NEW t \in Tasks, Moves(t, "new", "waiting") PROVE Lifecycle!Next
  BY <1>9, MovesIsMove DEF Lifecycle!Next, Lifecycle!Accept
<1>10. ASSUME NEW t \in Tasks, Moves(t, "waiting", "settled") PROVE Lifecycle!Next
  BY <1>10, MovesIsMove DEF Lifecycle!Next, Lifecycle!Deal, Lifecycle!Skip
<1>11. ASSUME NEW t \in Tasks, Moves(t, "executing", "settled") PROVE Lifecycle!Next
  BY <1>11, MovesIsMove DEF Lifecycle!Next, Lifecycle!Deal, Lifecycle!Settle
<1>12. ASSUME NEW t \in Tasks, Moves(t, "waiting", "executing"),
              NEW w \in Workers, pc[w] \notin InHandler
       PROVE  Lifecycle!Next
  <2>1. Lifecycle!Move(t, "waiting", "executing")
    BY <1>12, MovesIsMove
  <2>2. Cardinality({s \in Tasks : [r \in Tasks |-> Phase(r)][s] = "executing"})
          < Cardinality(Workers)
    <3>1. {s \in Tasks : [r \in Tasks |-> Phase(r)][s] = "executing"}
            = {s \in Tasks : Phase(s) = "executing"}
      OBVIOUS
    <3> QED BY <1>12, <3>1, SlotIsFree
  <2>3. Lifecycle!Execute(t)
    <3>1. \A S : Lifecycle!Cardinality(S) = Cardinality(S)
      BY DEF Lifecycle!Cardinality, Cardinality
    <3> QED BY <2>1, <2>2, <3>1 DEF Lifecycle!Execute
  <2> QED BY <2>3 DEF Lifecycle!Next, Lifecycle!Deal
<1> QED BY <1>7, <1>8, <1>9, <1>10, <1>11, <1>12

(* The queue implements the promise of TaskLifecycle, step by step: no     *)
(* task is executed twice or by two workers, and never more of them than   *)
(* there are workers.  (Its fairness is checked on instances only.)        *)
THEOREM ImplementsLifecycleSafely ==
    Spec => Lifecycle!Init /\ [][Lifecycle!Next]_[t \in Tasks |-> Phase(t)]
<1>1. Init => Lifecycle!Init
  BY DEF Init, Lifecycle!Init, Phase
<1>2. QInv /\ QInv' /\ [Next]_vars => [Lifecycle!Next]_[t \in Tasks |-> Phase(t)]
  BY LifecycleStep DEF PhaseMap
<1> QED
  BY <1>1, <1>2, QueueInvariant, PTL DEF Spec

=============================================================================
