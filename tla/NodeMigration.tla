---------------------------- MODULE NodeMigration ----------------------------
(***************************************************************************)
(* A machine moved to another node (service/vm/migration): a preview looks *)
(* at both nodes and is kept; a task goes by it, copies the disk of a      *)
(* machine that is shut off (cold) or has libvirt move a running one       *)
(* (live), and asks the panel of the target to adopt it.  The guest goes   *)
(* on working, and users' operations look for a task before they act.      *)
(***************************************************************************)
EXTENDS Naturals, FiniteSets, NoValue

CONSTANTS
    Requests,    \* requests to migrate; each submits a task
    Slots,       \* workers of the queue
    MaxWrites,   \* bound: changes of the disk
    MaxFaults    \* bound: errors of commands and calls, and crashes

(* Tasks at work, previews, and operations of users.                       *)
Stages == {"validate", "copy", "copying", "define", "assess", "prepare", "nvram", "migrate",
           "cleanup", "failed", "moved", "adopt"}
Modes == {None, "live", "cold"}
Jobs == [pc : Stages, mode : Modes, layers : 0..2, from : {None} \cup 0..MaxWrites,
         made : SUBSET {"file", "nvram"}]
Previews == [pc : {"previewed", "submit"}, mode : Modes]
Looks == [op : {"start", "snapshot"}, saw : BOOLEAN]

ASSUME MigrationAssumption ==
    /\ MaxWrites \in Nat /\ MaxFaults \in Nat
    /\ None \notin Nat \cup Jobs \cup Previews \cup Looks
    /\ None \notin {"live", "cold", "source", "target", "success", "failed"}

VARIABLES
    src,         \* the machine here: running, layers and changes of its disk
    tgt,         \* there: its file, definition, NVRAM file, running, put to use
    throttle,    \* where the CPU is limited for the migration
    req,         \* requests under way, with the mode of their preview
    phase,       \* their tasks, as the queue promises them
    carried,     \* tasks at work
    outcome,     \* what the handler returned
    ctx,         \* tasks whose context is done
    user,        \* a user's operation that has looked for tasks
    faults,
    windows      \* history: what the properties do not speak of

migrationVars == <<src, tgt, throttle, req, phase, carried, outcome, ctx, user, faults, windows>>

Queue == INSTANCE TaskLifecycle WITH Tasks <- Requests

(* The changes a file at the target holds, or no state of the disk.        *)
Empty == MaxWrites + 1
Torn == MaxWrites + 2
Nowhere == [file |-> None, def |-> None, nvram |-> FALSE, on |-> FALSE, used |-> FALSE]

InitMigration ==
    /\ \E on \in BOOLEAN : src = [on |-> on, layers |-> 1, writes |-> 0]
    /\ tgt = Nowhere /\ throttle = None
    /\ req = [r \in Requests |-> None]
    /\ Queue!Init
    /\ carried = [t \in Requests |-> None] /\ outcome = [t \in Requests |-> None]
    /\ ctx = {} /\ user = None
    /\ faults = 0 /\ windows = {}

At(t, to) == carried[t] # None /\ carried[t].pc = to
Go(t, to) == carried' = [carried EXCEPT ![t].pc = to]
Fault == faults < MaxFaults /\ faults' = faults + 1
Window(w) == windows' = windows \cup w
When(b, w) == IF b THEN {w} ELSE {}

IsVMUnderMigration == \E t \in Requests : phase[t] \in {"waiting", "executing"}

(* Fault: nobody looks for tasks.                                          *)
NeverRefused == TRUE

EnsureVMNotMigrating == ~ IsVMUnderMigration

DetectMigrationModeFromState == IF src.on THEN "live" ELSE "cold"
TargetIsFree == tgt.def = None /\ tgt.file = None

(* The backing files of a snapshot's layers are not at the target.         *)
Blocked == src.layers # 1 \/ ~ TargetIsFree

-----------------------------------------------------------------------------
(* The guest, and the users.                                               *)

Others == UNCHANGED <<tgt, req, phase, carried, outcome, ctx, faults>>

GuestWrites ==
    /\ src.on /\ src.writes < MaxWrites
    /\ src' = [src EXCEPT !.writes = @ + 1]
    /\ Others /\ UNCHANGED <<throttle, user, windows>>

GuestStops ==
    /\ src.on
    /\ src' = [src EXCEPT !.on = FALSE]
    /\ throttle' = None
    /\ Others /\ UNCHANGED <<user, windows>>

UserLooks ==
    /\ user = None /\ EnsureVMNotMigrating
    /\ \E what \in {"start", "snapshot"} : user' = [op |-> what, saw |-> IsVMUnderMigration]
    /\ Others /\ UNCHANGED <<src, throttle, windows>>

(* A snapshot of a running machine puts a layer on its disk.               *)
UserActs ==
    /\ user # None /\ user' = None
    /\ src' = IF user.op = "start" THEN [src EXCEPT !.on = TRUE]
              ELSE IF src.on THEN [src EXCEPT !.layers = 2] ELSE src
    /\ Window(When(IsVMUnderMigration /\ ~ user.saw, "race") \cup When(tgt.def # None, "kept"))
    /\ Others /\ UNCHANGED throttle

(* The users of the target, once its panel has the machine.                *)
UsedThere ==
    /\ \E t \in Requests : outcome[t] = "success"
    /\ tgt' = [tgt EXCEPT !.used = TRUE, !.on = TRUE]
    /\ UNCHANGED <<src, throttle, req, phase, carried, outcome, ctx, user, faults, windows>>

-----------------------------------------------------------------------------
(* Requests.                                                               *)

Unasked == UNCHANGED <<req, user>>

CreateVMMigrationPreview(r) ==
    /\ req[r] = None /\ phase[r] = "new" /\ ~ Blocked
    /\ req' = [req EXCEPT ![r] = [pc |-> "previewed", mode |-> DetectMigrationModeFromState]]
    /\ UNCHANGED <<src, tgt, throttle, phase, carried, outcome, ctx, user, faults, windows>>

(* MigrateVM, with a preview or without.                                   *)
MigrateVM(r) ==
    /\ phase[r] = "new" /\ EnsureVMNotMigrating
    /\ \/ req[r] = None /\ req' = [req EXCEPT ![r] = [pc |-> "submit", mode |-> None]]
       \/ req[r] # None /\ req[r].pc = "previewed" /\ req' = [req EXCEPT ![r].pc = "submit"]
    /\ UNCHANGED <<src, tgt, throttle, phase, carried, outcome, ctx, user, faults, windows>>

Submit(r) ==
    /\ req[r] # None /\ req[r].pc = "submit" /\ Queue!Accept(r)
    /\ UNCHANGED <<src, tgt, throttle, req, carried, outcome, ctx, user, faults, windows>>

CancelWaiting(t) ==
    /\ Queue!Skip(t)
    /\ UNCHANGED <<src, tgt, throttle, req, carried, outcome, ctx, user, faults, windows>>

CancelMigration(t) ==
    /\ phase[t] = "executing" /\ t \notin ctx
    /\ ctx' = ctx \cup {t}
    /\ UNCHANGED <<src, tgt, throttle, req, phase, carried, outcome, user, faults, windows>>

-----------------------------------------------------------------------------
(* The task: ExecuteVMMigration.                                           *)

Return(t, v) ==
    /\ Queue!Settle(t)
    /\ carried' = [carried EXCEPT ![t] = None]
    /\ outcome' = [outcome EXCEPT ![t] = v]
Stays == UNCHANGED <<phase, outcome>>

Execute(t) ==
    /\ Queue!Execute(t)
    /\ carried' = [carried EXCEPT ![t] = [pc |-> "validate", mode |-> req[t].mode,
                                  layers |-> 0, from |-> None, made |-> {}]]
    /\ Window(When(\E u \in Requests \ {t} : carried[u] # None, "twice"))
    /\ Unasked /\ UNCHANGED <<src, tgt, throttle, outcome, ctx, faults>>

(* validateCachedPreviewForExecution looks at the state of the machine and *)
(* at the target, and not at the disks again; without a preview one is     *)
(* built now.  The XML is that of now.                                     *)
Validate(t) ==
    LET cached == carried[t].mode # None
        mode == DetectMigrationModeFromState
        valid == IF cached THEN carried[t].mode = mode /\ TargetIsFree ELSE ~ Blocked
    IN /\ At(t, "validate")
       /\ \/ /\ valid /\ Stays
             /\ carried' = [carried EXCEPT ![t].pc = IF mode = "cold" THEN "copy" ELSE "assess",
                                   ![t].layers = src.layers]
             /\ Window(When(src.layers # 1, "stale")) /\ UNCHANGED faults
          \/ ~ valid /\ Return(t, "failed") /\ UNCHANGED <<faults, windows>>
          \/ Fault /\ Return(t, "failed") /\ UNCHANGED windows
       /\ Unasked /\ UNCHANGED <<src, tgt, throttle, ctx>>

(* Every remote command of a task whose context is done fails.             *)
Fails(t) ==
    \/ t \in ctx /\ UNCHANGED faults
    \/ Fault

-----------------------------------------------------------------------------
(* executeColdMigration, which removes nothing after an error.             *)

Cold(t, to) == At(t, to) /\ Unasked /\ UNCHANGED <<src, throttle, ctx>>

TestTarget(t) ==
    /\ Cold(t, "copy")
    /\ \/ /\ tgt.file = None /\ t \notin ctx /\ Stays /\ UNCHANGED faults
          /\ carried' = [carried EXCEPT ![t].pc = "copying",
                                ![t].from = IF src.on THEN None ELSE src.writes]
       \/ tgt.file # None /\ Return(t, "failed") /\ UNCHANGED faults
       \/ Fails(t) /\ Return(t, "failed")
    /\ UNCHANGED <<tgt, windows>>

(* rsync puts the file in its place when it has all of it, over one that   *)
(* has come there meanwhile; an error may come at the next of the disks.   *)
Copied(t) ==
    IF ~ src.on /\ src.writes = carried[t].from /\ ~ tgt.used THEN src.writes ELSE Torn

RemoteRsyncFile(t) ==
    /\ Cold(t, "copying")
    /\ \/ /\ t \notin ctx /\ Go(t, "define") /\ Stays
          /\ tgt' = [tgt EXCEPT !.file = Copied(t)]
          /\ UNCHANGED <<faults, windows>>
       \/ Fails(t) /\ Return(t, "failed") /\ UNCHANGED <<tgt, windows>>
       \/ /\ Fails(t) /\ Return(t, "failed") /\ Window({"copy"})
          /\ tgt' = [tgt EXCEPT !.file = Copied(t)]

DefineVM(t) ==
    /\ Cold(t, "define")
    /\ \/ /\ t \notin ctx /\ Go(t, "adopt") /\ Stays
          /\ tgt' = [tgt EXCEPT !.def = carried[t].layers] /\ UNCHANGED <<faults, windows>>
       \/ Fails(t) /\ Return(t, "failed") /\ Window({"copy"}) /\ UNCHANGED tgt

-----------------------------------------------------------------------------
(* executeLiveMigration, and what it defers.                               *)

Live(t, to) == At(t, to) /\ Stays /\ Unasked /\ UNCHANGED ctx

Assess(t) ==
    /\ At(t, "assess")
    /\ \/ /\ src.on /\ t \notin ctx /\ Go(t, "prepare") /\ Stays
          /\ throttle' \in {throttle, "source"} /\ UNCHANGED faults
       \/ ~ src.on /\ Return(t, "failed") /\ UNCHANGED <<throttle, faults>>
       \/ Fails(t) /\ Return(t, "failed") /\ UNCHANGED throttle
    /\ Unasked /\ UNCHANGED <<src, tgt, ctx, windows>>

(* The cleaning up is deferred only after an error here has returned.      *)
prepareLiveMigrationTargets(t) ==
    /\ Live(t, "prepare")
    /\ \/ /\ tgt.file = None /\ t \notin ctx
          /\ tgt' = [tgt EXCEPT !.file = Empty]
          /\ carried' = [carried EXCEPT ![t].pc = "nvram", ![t].made = {"file"}]
          /\ UNCHANGED <<faults, windows>>
       \/ tgt.file # None /\ Go(t, "failed") /\ UNCHANGED <<tgt, faults, windows>>
       \/ Fails(t) /\ Go(t, "failed") /\ UNCHANGED <<tgt, windows>>
       \/ /\ tgt.file = None /\ Fault /\ Go(t, "failed")
          /\ tgt' = [tgt EXCEPT !.file = Empty] /\ Window({"prepare"})
    /\ UNCHANGED <<src, throttle>>

(* The path is to be cleaned up only when there was no error.              *)
prepareMigrationNVRAMOnTarget(t) ==
    /\ Live(t, "nvram")
    /\ \/ /\ t \notin ctx
          /\ tgt' = [tgt EXCEPT !.nvram = TRUE]
          /\ carried' = [carried EXCEPT ![t].pc = "migrate", ![t].made = @ \cup {"nvram"},
                                ![t].layers = src.layers]
          /\ UNCHANGED <<faults, windows>>
       \/ Fails(t) /\ Go(t, "cleanup") /\ UNCHANGED <<tgt, windows>>
       \/ /\ Fault /\ Go(t, "cleanup")
          /\ tgt' = [tgt EXCEPT !.nvram = TRUE] /\ Window({"prepare"})
    /\ UNCHANGED <<src, throttle>>

(* virsh migrate: the machine goes on there, and stays defined here.       *)
Migrate(t) ==
    /\ Live(t, "migrate")
    /\ \/ /\ src.on /\ carried[t].layers = src.layers /\ src.layers = 1
          /\ tgt.file # None /\ tgt.def = None /\ t \notin ctx
          /\ tgt' = [tgt EXCEPT !.file = src.writes, !.def = src.layers, !.on = TRUE]
          /\ src' = [src EXCEPT !.on = FALSE]
          /\ throttle' = IF throttle = "source" THEN "target" ELSE throttle
          /\ Go(t, "moved") /\ UNCHANGED faults
       \/ /\ \/ ~ src.on /\ UNCHANGED faults
             \/ (src.layers # 1 \/ tgt.file = None \/ tgt.def # None) /\ UNCHANGED faults
             \/ Fails(t)
          /\ Go(t, "cleanup") /\ UNCHANGED <<src, tgt, throttle>>
    /\ UNCHANGED windows

(* Fault: the NVRAM file is not on the list.                               *)
CleanDisks(t) ==
    /\ Live(t, "cleanup") /\ Go(t, "failed")
    /\ \/ t \notin ctx /\ tgt' = [tgt EXCEPT !.file = None] /\ UNCHANGED <<faults, windows>>
       \/ Fails(t) /\ Window({"uncleaned"}) /\ UNCHANGED tgt
    /\ UNCHANGED <<src, throttle>>

cleanupLiveMigrationTargets(t) ==
    /\ Live(t, "cleanup") /\ Go(t, "failed")
    /\ \/ /\ t \notin ctx /\ UNCHANGED <<faults, windows>>
          /\ tgt' = [tgt EXCEPT !.file = None,
                                !.nvram = IF "nvram" \in carried[t].made THEN FALSE ELSE @]
       \/ Fails(t) /\ Window({"uncleaned"}) /\ UNCHANGED tgt
    /\ UNCHANGED <<src, throttle>>

(* Restore tries here, which succeeds when a machine runs here, and else   *)
(* there, where it needs the context.                                      *)
Restore(t) ==
    /\ At(t, "failed") \/ At(t, "moved")
    /\ \/ /\ throttle # "target" \/ (~ src.on /\ t \notin ctx)
          /\ throttle' = None /\ UNCHANGED <<faults, windows>>
       \/ throttle = "target" /\ src.on /\ UNCHANGED <<throttle, faults, windows>>
       \/ throttle = "target" /\ Fails(t) /\ Window({"limited"}) /\ UNCHANGED throttle
    /\ IF At(t, "moved") THEN Go(t, "adopt") /\ Stays ELSE Return(t, "failed")
    /\ Unasked /\ UNCHANGED <<src, tgt, ctx>>

(* The call to the target's panel does not know the context; after an      *)
(* error the machine is at the target all the same.                        *)
AdoptMigratedVM(t) ==
    /\ At(t, "adopt")
    /\ \/ Return(t, "success") /\ UNCHANGED <<faults, windows>>
       \/ Fault /\ Return(t, "failed") /\ Window({"unadopted"})
    /\ Unasked /\ UNCHANGED <<src, tgt, throttle, ctx>>

(* The panel dies: tasks are settled when it comes up again.               *)
Crash ==
    /\ Fault /\ \E t \in Requests : phase[t] \in {"waiting", "executing"}
    /\ carried' = [t \in Requests |-> None]
    /\ phase' = [t \in Requests |-> IF phase[t] = "new" THEN "new" ELSE "settled"]
    /\ req' = [r \in Requests |-> None] /\ user' = None
    /\ Window({"crash"})
    /\ UNCHANGED <<src, tgt, throttle, outcome, ctx>>

Work(t) ==
    \/ Validate(t) \/ TestTarget(t) \/ RemoteRsyncFile(t) \/ DefineVM(t)
    \/ Assess(t) \/ prepareLiveMigrationTargets(t) \/ prepareMigrationNVRAMOnTarget(t)
    \/ Migrate(t) \/ cleanupLiveMigrationTargets(t) \/ Restore(t) \/ AdoptMigratedVM(t)

MigrationNext ==
    \/ GuestWrites \/ GuestStops \/ UserLooks \/ UserActs \/ UsedThere \/ Crash
    \/ \E r \in Requests : CreateVMMigrationPreview(r) \/ MigrateVM(r) \/ Submit(r)
    \/ \E t \in Requests : CancelWaiting(t) \/ CancelMigration(t) \/ Execute(t) \/ Work(t)

MigrationSpec == InitMigration /\ [][MigrationNext]_migrationVars

-----------------------------------------------------------------------------
MigrationTypeOK ==
    /\ src \in [on : BOOLEAN, layers : 1..2, writes : 0..MaxWrites]
    /\ tgt \in [file : {None} \cup 0..Torn, def : {None, 1, 2},
               nvram : BOOLEAN, on : BOOLEAN, used : BOOLEAN]
    /\ throttle \in {None, "source", "target"}
    /\ req \in [Requests -> Previews \cup {None}]
    /\ phase \in [Requests -> Queue!Phases]
    /\ carried \in [Requests -> Jobs \cup {None}]
    /\ \A t \in Requests : carried[t] # None <=> phase[t] = "executing"
    /\ outcome \in [Requests -> {None, "success", "failed"}]
    /\ ctx \subseteq Requests /\ user \in Looks \cup {None}
    /\ faults \in 0..MaxFaults

(* A task that ended well has moved the machine: the target's definition   *)
(* refers to a copy of the disk with every change, whatever the guest, the *)
(* users, earlier tries and other requests did since the preview.  The     *)
(* code is exposed to an operation that looked for tasks before this one   *)
(* was submitted, a snapshot taken since the preview, two tasks at a time, *)
(* and a start of the source's copy, which is kept.  Its CPU is no longer  *)
(* limited either, unless the task was canceled after the move.            *)
MigratedIsWhole ==
    \A t \in Requests : outcome[t] = "success" =>
      \/ windows \cap {"race", "stale", "twice", "kept"} # {}
      \/ /\ tgt.def = 1 /\ tgt.file = src.writes /\ ~ src.on
         /\ throttle = None \/ "limited" \in windows

(* When every try has failed, the machine is as it was: nothing of it is   *)
(* at the target and its CPU is not limited.  The code is exposed to a     *)
(* cold copy once begun, a preparation or cleaning up that fails or is     *)
(* canceled, an adoption that fails, and a crash.                          *)
FailedLeavesNothing ==
    (\A t \in Requests : carried[t] = None /\ outcome[t] # "success") =>
      \/ windows \cap {"copy", "prepare", "uncleaned", "unadopted", "crash"} # {}
      \/ tgt = Nowhere /\ throttle = None
=============================================================================
