----------------------------- MODULE TaskEvents -----------------------------
(***************************************************************************)
(* The SSE side of the task queue: broadcastEvent, RegisterSSEClient,      *)
(* UnregisterSSEClient (queue.go) and the handler SSETaskProgress (task.go)*)
(* composed with the queue.  Cancel broadcasts while it holds the store    *)
(* lock; Submit and the workers broadcast after they let go of it.         *)
(***************************************************************************)
EXTENDS TaskQueue

CONSTANTS
    Clients,     \* SSE connections
    Viewer,      \* the user behind each connection
    BufferSize   \* capacity of a client's channel (50 in the code)

ASSUME ClientsAssumption ==
    /\ Viewer \in [Clients -> Users]
    /\ BufferSize \in Nat \ {0}

VARIABLES
    registered,  \* keys of sseClients
    gone,        \* clients that disconnected: their channel is closed
    chan,        \* events in each client's channel
    shown,       \* the last status each client was sent for each task
    missed       \* history: events a client did not get in its channel

evars == <<registered, gone, chan, shown, missed>>

Event(t, s) == [task |-> t, status |-> s]

InitEvents ==
    /\ registered = {}
    /\ gone = {}
    /\ chan = [c \in Clients |-> <<>>]
    /\ shown = [c \in Clients |-> [t \in Tasks |-> "unborn"]]
    /\ missed = {}

(* The non-blocking send of broadcastEvent: a full buffer loses the event. *)
Receives(c) == c \in registered /\ Len(chan[c]) < BufferSize

Broadcast(t, s) ==
    /\ chan' = [c \in Clients |->
                  IF Receives(c) THEN Append(chan[c], Event(t, s)) ELSE chan[c]]
    /\ missed' = missed \cup {<<c, t>> : c \in {d \in Clients : ~ Receives(d)}}
    /\ UNCHANGED <<registered, gone, shown>>

-----------------------------------------------------------------------------
(* The steps of the queue, with the events they broadcast.                 *)

QuietStep ==
    /\ \/ \E t \in Tasks : SubmitStore(t) \/ SubmitSend(t)
       \/ \E w \in Workers :
            \/ Receive(w) \/ LoadTask(w) \/ CheckCanceled(w) \/ StoreCancelFn(w)
            \/ MarkRunning(w) \/ CallHandler(w) \/ NoHandler(w)
            \/ ReportProgress(w) \/ HandlerReturns(w) \/ RecordVerdict(w)
            \/ RemoveCancelFn(w)
       \/ \E u \in Users : ClearFinishedTasksForUser(u)
    /\ UNCHANGED evars

AnnouncePending(t) == SubmitAnnounce(t) /\ Broadcast(t, "pending")

AnnounceRunning(w) ==
    /\ BroadcastRunning(w) \/ BroadcastProgress(w)
    /\ Broadcast(job[w], "running")

(* Fault: the outcome is recorded and not broadcast.                       *)
AnnounceNothing(w) == BroadcastVerdict(w) /\ UNCHANGED evars

AnnounceVerdict(w) == BroadcastVerdict(w) /\ Broadcast(job[w], verdict[w])

AnnounceCancel(t, u) == CancelTaskForUser(t, u) /\ Broadcast(t, status'[t])

-----------------------------------------------------------------------------
(* SSETaskProgress: register, pass on what the viewer may see, unregister. *)

RegisterSSEClient(c) ==
    /\ c \notin registered \cup gone
    /\ registered' = registered \cup {c}
    /\ UNCHANGED <<vars, gone, chan, shown, missed>>

(* GetTaskForUser decides at delivery: an unknown or foreign task is       *)
(* skipped.                                                                *)
MaySee(c, t) == t \in stored /\ CanAccessTask(t, Viewer[c])

Deliver(c) ==
    /\ c \in registered
    /\ chan[c] # <<>>
    /\ LET e == Head(chan[c]) IN
         shown' = IF MaySee(c, e.task)
                  THEN [shown EXCEPT ![c][e.task] = e.status] ELSE shown
    /\ chan' = [chan EXCEPT ![c] = Tail(@)]
    /\ UNCHANGED <<vars, registered, gone, missed>>

(* Fault: the channel is closed and its entry in sseClients stays.         *)
CloseOnly(c) ==
    /\ c \in registered \ gone
    /\ gone' = gone \cup {c}
    /\ UNCHANGED <<vars, registered, chan, shown, missed>>

UnregisterSSEClient(c) ==
    /\ c \in registered
    /\ registered' = registered \ {c}
    /\ gone' = gone \cup {c}
    /\ UNCHANGED <<vars, chan, shown, missed>>

-----------------------------------------------------------------------------
EventsNext ==
    \/ QuietStep
    \/ \E t \in Tasks : AnnouncePending(t)
    \/ \E t \in Tasks, u \in Users : AnnounceCancel(t, u)
    \/ \E w \in Workers : AnnounceRunning(w) \/ AnnounceVerdict(w)
    \/ \E c \in Clients : RegisterSSEClient(c) \/ Deliver(c) \/ UnregisterSSEClient(c)

EventsSpec == Init /\ InitEvents /\ [][EventsNext]_<<vars, evars>>

-----------------------------------------------------------------------------
EventsTypeOK ==
    /\ registered \subseteq Clients
    /\ gone \subseteq Clients
    /\ \A c \in Clients : Len(chan[c]) <= BufferSize
    /\ chan \in [Clients -> Seq([task : Tasks, status : Statuses])]
    /\ shown \in [Clients -> [Tasks -> Statuses]]
    /\ missed \subseteq Clients \X Tasks

Announces(c, t) == \E i \in 1..Len(chan[c]) : chan[c][i].task = t

(* The verdict of a task is the last thing a client hears of it: no late   *)
(* progress, cancel or submit message follows success or failure, although *)
(* workers broadcast outside the store lock (queue.go:309-351, 492-498).   *)
VerdictIsLastEvent ==
    \A c \in Clients :
        /\ \A i, j \in 1..Len(chan[c]) :
             chan[c][i].status \in {"success", "failed"} /\ i < j =>
                chan[c][j].task # chan[c][i].task
        /\ \A t \in Tasks : shown[c][t] \in {"success", "failed"} => ~ Announces(c, t)

(* A viewer who missed nothing and may see a task that ran is shown its    *)
(* true outcome once the worker has moved on and the channel is drained.   *)
ShownOutcomeIsTrue ==
    \A c \in registered, t \in Tasks :
        (/\ MaySee(c, t) /\ <<c, t>> \notin missed /\ ~ Announces(c, t)
         /\ status[t] \in {"success", "failed"}
         /\ \A w \in Workers : ~ HeldBy(w, t)) => shown[c][t] = status[t]

(* Nothing is ever sent on a channel that was closed: send on a closed     *)
(* channel would panic in a worker or in the request that cancels.         *)
NoSendAfterClose ==
    [][\A c \in gone : chan'[c] = chan[c]]_<<vars, evars>>
=============================================================================
