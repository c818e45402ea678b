----------------------- MODULE LightweightRegistration -----------------------
(***************************************************************************)
(* A machine of the lightweight cloud from its registration by an          *)
(* administrator to its life (service/lightweight/provision.go,            *)
(* registration.go).  The user confirms, which submits a task; the task    *)
(* clones the machine, or goes on with what an earlier try left, and       *)
(* writes the rows that belong to it.  The status of the registration      *)
(* tells who may do what next.                                             *)
(***************************************************************************)
EXTENDS Naturals, FiniteSets, QueueSlots

CONSTANTS
    Confirmations,   \* each submits a task
    MaxIds,          \* bound: registrations made of the name
    MaxErrors        \* bound: errors of commands, of the database, and crashes

Rows == {"owner", "quota", "network", "credential"}
Statuses == {"pending", "provisioning", "failed", "active"}
Registrations == [id : Nat, status : Statuses]
Confirming == [pc : {"submit", "mark", "done"}, id : Nat]
Jobs == [pc : {"begin", "clone", "define", "start", "check", "continue", "activate"} \cup Rows,
         id : Nat]

ASSUME RegistrationAssumption ==
    /\ MaxIds \in Nat /\ MaxErrors \in Nat
    /\ None \notin Registrations \cup Confirming \cup Jobs \cup {"machine", "owner"}

VARIABLES
    reg,         \* the registration of the name, or None
    lastId,
    domain, image,   \* the machine's definition and its disk
    rows,        \* what belongs to the machine
    confirm,     \* requests under way
    provision,   \* their tasks, as the queue promises them
    job,         \* tasks at work
    ctx,         \* tasks whose context is done
    removing,    \* "machine" or "owner": a removal under way
    errors,
    lapses       \* history: what the properties do not speak of

registrationVars == <<reg, lastId, domain, image, rows, confirm, provision, job, ctx,
                      removing, errors, lapses>>

Provisions == INSTANCE TaskLifecycle WITH Tasks <- Confirmations, phase <- provision

InitRegistration ==
    /\ reg = None /\ lastId = 0
    /\ domain = FALSE /\ image = FALSE /\ rows = {}
    /\ confirm = [c \in Confirmations |-> None]
    /\ Provisions!Init
    /\ job = [t \in Confirmations |-> None]
    /\ ctx = {}
    /\ removing = None
    /\ errors = 0 /\ lapses = {}

Status(s) == reg # None /\ reg.status = s
Is(id) == reg # None /\ reg.id = id
SetStatus(id, s) == reg' = IF Is(id) THEN [reg EXCEPT !.status = s] ELSE reg
Err == errors < MaxErrors /\ errors' = errors + 1
JobAt(t, pc) == job[t] # None /\ job[t].pc = pc
JobGoes(t, pc) == job' = [job EXCEPT ![t].pc = pc]
Lapse(w) == lapses' = lapses \cup w
Disturbs(t) == IF \E u \in Confirmations \ {t} : job[u] # None THEN {"twice"} ELSE {}

-----------------------------------------------------------------------------
(* Administrators.                                                         *)

CreateLightweightVMRegistrations ==
    /\ reg = None /\ lastId < MaxIds
    /\ reg' = [id |-> lastId + 1, status |-> "pending"] /\ lastId' = lastId + 1
    /\ UNCHANGED <<domain, image, rows, confirm, provision, job, ctx, removing, errors,
                   lapses>>

DeleteLightweightVMRegistration ==
    /\ Status("pending") \/ Status("failed")
    /\ reg' = None
    /\ UNCHANGED <<lastId, domain, image, rows, confirm, provision, job, ctx, removing,
                   errors, lapses>>

(* The records go in one transaction, the owner's list afterwards.         *)
RemoveLightweightVMRegistrationByVMName ==
    /\ ~ Status("provisioning") /\ (reg # None \/ "quota" \in rows)
    /\ removing = None /\ removing' = "owner"
    /\ reg' = None /\ rows' = rows \ {"quota"}
    /\ UNCHANGED <<lastId, domain, image, confirm, provision, job, ctx, errors, lapses>>

RemoveVMFromUser ==
    /\ removing = "owner" /\ removing' = None
    /\ rows' = rows \ {"owner"}
    /\ Lapse(IF reg # None THEN {"removal"} ELSE {})
    /\ UNCHANGED <<reg, lastId, domain, image, confirm, provision, job, ctx, errors>>

DeleteVM ==
    /\ domain /\ removing = None /\ removing' = "machine"
    /\ domain' = FALSE /\ image' = FALSE
    /\ UNCHANGED <<reg, lastId, rows, confirm, provision, job, ctx, errors, lapses>>

CleanupLightweightVMResources ==
    /\ removing = "machine" /\ removing' = None
    /\ reg' = None /\ rows' = {}
    /\ UNCHANGED <<lastId, domain, image, confirm, provision, job, ctx, errors, lapses>>

-----------------------------------------------------------------------------
(* The user confirms, and cancels.                                         *)

BuildLightweightVMProvisionParams(c) ==
    /\ confirm[c] = None /\ provision[c] = "new"
    /\ Status("pending") \/ Status("failed")
    /\ confirm' = [confirm EXCEPT ![c] = [pc |-> "submit", id |-> reg.id]]
    /\ UNCHANGED <<reg, lastId, domain, image, rows, provision, job, ctx, removing, errors,
                   lapses>>

SubmitProvision(c) ==
    /\ confirm[c] # None /\ confirm[c].pc = "submit"
    /\ Provisions!Accept(c)
    /\ confirm' = [confirm EXCEPT ![c].pc = "mark"]
    /\ UNCHANGED <<reg, lastId, domain, image, rows, job, ctx, removing, errors, lapses>>

MarkLightweightVMRegistrationTask(c) ==
    /\ confirm[c] # None /\ confirm[c].pc = "mark"
    /\ SetStatus(confirm[c].id, "provisioning")
    /\ Lapse(IF provision[c] = "settled" THEN {"late"} ELSE {})
    /\ confirm' = [confirm EXCEPT ![c].pc = "done"]
    /\ UNCHANGED <<lastId, domain, image, rows, provision, job, ctx, removing, errors>>

CancelWaiting(t) ==
    /\ Provisions!Skip(t)
    /\ Lapse({"canceled"})
    /\ UNCHANGED <<reg, lastId, domain, image, rows, confirm, job, ctx, removing, errors>>

CancelRunning(t) ==
    /\ provision[t] = "executing" /\ t \notin ctx
    /\ ctx' = ctx \cup {t}
    /\ UNCHANGED <<reg, lastId, domain, image, rows, confirm, provision, job, removing,
                   errors, lapses>>

-----------------------------------------------------------------------------
(* The task.                                                               *)

Unasked == UNCHANGED <<lastId, confirm, removing>>

ExecuteProvision(t) ==
    /\ Provisions!Execute(t)
    /\ job' = [job EXCEPT ![t] = [pc |-> "begin", id |-> confirm[t].id]]
    /\ Lapse(Disturbs(t))
    /\ Unasked /\ UNCHANGED <<reg, domain, image, rows, ctx, errors>>

(* The task ends. *)
Leave(t) == Provisions!Settle(t) /\ job' = [job EXCEPT ![t] = None]

(* The errors before the status is set do not touch it.                    *)
Begin(t) ==
    /\ JobAt(t, "begin")
    /\ \/ /\ Is(job[t].id) /\ reg.status # "active"
          /\ SetStatus(job[t].id, "provisioning") /\ JobGoes(t, "clone")
          /\ UNCHANGED <<provision, errors, lapses>>
       \/ /\ ~ Is(job[t].id) \/ Status("active")
          /\ Leave(t) /\ UNCHANGED <<reg, errors, lapses>>
       \/ Err /\ Leave(t) /\ Lapse({"refused"}) /\ UNCHANGED reg
    /\ Unasked /\ UNCHANGED <<domain, image, rows, ctx>>

Fail(t) == SetStatus(job[t].id, "failed") /\ Leave(t)

(* What every other step of a task leaves alone. *)
Aside == Unasked /\ UNCHANGED <<rows, ctx, lapses>>

(* CloneVM makes the disk;  what an earlier try left of it is overwritten.  *)
CloneVM(t) ==
    /\ JobAt(t, "clone")
    /\ \/ domain /\ JobGoes(t, "continue") /\ UNCHANGED <<reg, image, provision, errors>>
       \/ /\ ~ domain
          /\ image' = (t \notin ctx)
          /\ IF t \in ctx THEN Fail(t) ELSE JobGoes(t, "define") /\ UNCHANGED <<reg,
                                                                                provision>>
          /\ UNCHANGED errors
       \/ ~ domain /\ Err /\ image' \in {image, TRUE} /\ Fail(t)
    /\ Aside /\ UNCHANGED domain

(* A domain that another task defined meanwhile is taken for one kept.     *)
Define(t) ==
    /\ JobAt(t, "define")
    /\ \/ ~ domain /\ domain' = TRUE /\ JobGoes(t, "start") /\ UNCHANGED <<reg, image,
                                                                           provision, errors>>
       \/ /\ domain
          /\ image' = FALSE /\ JobGoes(t, "continue") /\ UNCHANGED <<reg, domain, provision,
                                                                     errors>>
       \/ Err /\ image' = FALSE /\ Fail(t) /\ UNCHANGED domain
    /\ Aside

(* An error of the start removes the disk of the domain that was defined.   *)
StartVM(t) ==
    /\ JobAt(t, "start")
    /\ \/ domain /\ image /\ JobGoes(t, "check") /\ UNCHANGED <<reg, image, provision, errors>>
       \/ ~ (domain /\ image) /\ image' = FALSE /\ Fail(t) /\ UNCHANGED errors
       \/ Err /\ image' = FALSE /\ Fail(t)
    /\ Aside /\ UNCHANGED domain

CheckCanceled(t) ==
    /\ JobAt(t, "check")
    /\ IF t \in ctx
       THEN domain' = FALSE /\ image' = FALSE /\ Fail(t)
       ELSE JobGoes(t, "owner") /\ UNCHANGED <<reg, domain, image, provision>>
    /\ Aside /\ UNCHANGED errors

(* Err: the machine that was kept is taken as it is.                     *)
ContinueBlindly(t) ==
    /\ JobAt(t, "continue")
    /\ JobGoes(t, "owner")
    /\ Aside /\ UNCHANGED <<reg, domain, image, provision, errors>>

(* The kept machine is started when it does not run.                       *)
continueExistingLightweightVM(t) ==
    /\ JobAt(t, "continue")
    /\ \/ /\ domain /\ image /\ t \notin ctx
          /\ JobGoes(t, "owner") /\ UNCHANGED <<reg, domain, provision, errors>>
       \/ domain /\ image /\ t \in ctx /\ domain' = FALSE /\ Fail(t) /\ UNCHANGED errors
       \/ ~ (domain /\ image) /\ Fail(t) /\ UNCHANGED <<domain, errors>>
       \/ Err /\ Fail(t) /\ UNCHANGED domain
    /\ Aside /\ UNCHANGED image

(* Err: an error of a row ends the task with nothing else.               *)
WriteRowOrQuit(t) ==
    /\ \E p \in {<<"owner", "quota">>, <<"quota", "network">>, <<"network", "credential">>,
                 <<"credential", "activate">>} :
         /\ JobAt(t, p[1])
         /\ \/ JobGoes(t, p[2]) /\ rows' = rows \cup {p[1]} /\ UNCHANGED <<provision, errors>>
            \/ Err /\ Leave(t) /\ UNCHANGED rows
    /\ Unasked /\ UNCHANGED <<reg, domain, image, ctx, lapses>>

(* The rows in their order.                                                *)
WriteRow(t) ==
    /\ \E p \in {<<"owner", "quota">>, <<"quota", "network">>, <<"network", "credential">>,
                 <<"credential", "activate">>} :
         /\ JobAt(t, p[1])
         /\ \/ JobGoes(t, p[2]) /\ rows' = rows \cup {p[1]} /\ UNCHANGED <<reg, provision,
                                                                           errors>>
            \/ Err /\ Fail(t) /\ UNCHANGED rows
    /\ Unasked /\ UNCHANGED <<domain, image, ctx, lapses>>

Activate(t) ==
    /\ JobAt(t, "activate")
    /\ \/ SetStatus(job[t].id, "active") /\ Leave(t) /\ UNCHANGED errors
       \/ Err /\ Fail(t)
    /\ Aside /\ UNCHANGED <<domain, image>>

(* The panel dies: tasks are settled when it comes up again.               *)
PanelDies ==
    /\ Err
    /\ \E t \in Confirmations : job[t] # None \/ provision[t] = "waiting" \/ confirm[t] # None
    /\ job' = [t \in Confirmations |-> None]
    /\ provision' = [t \in Confirmations |-> IF provision[t] = "new" THEN "new" ELSE "settled"]
    /\ confirm' = [c \in Confirmations |-> None]
    /\ removing' = None
    /\ Lapse({"crash"})
    /\ UNCHANGED <<reg, lastId, domain, image, rows, ctx>>

Work(t) ==
    \/ Begin(t) \/ CloneVM(t) \/ Define(t) \/ StartVM(t) \/ CheckCanceled(t)
    \/ continueExistingLightweightVM(t) \/ WriteRow(t) \/ Activate(t)

RegistrationNext ==
    \/ CreateLightweightVMRegistrations \/ DeleteLightweightVMRegistration
    \/ RemoveLightweightVMRegistrationByVMName \/ RemoveVMFromUser
    \/ DeleteVM \/ CleanupLightweightVMResources \/ PanelDies
    \/ \E c \in Confirmations : \/ BuildLightweightVMProvisionParams(c) \/ SubmitProvision(c)
                           \/ MarkLightweightVMRegistrationTask(c)
    \/ \E t \in Confirmations :
         CancelWaiting(t) \/ CancelRunning(t) \/ ExecuteProvision(t) \/ Work(t)

RegistrationSpec == InitRegistration /\ [][RegistrationNext]_registrationVars

-----------------------------------------------------------------------------
RegistrationTypeOK ==
    /\ reg \in Registrations \cup {None} /\ lastId \in 0..MaxIds
    /\ domain \in BOOLEAN /\ image \in BOOLEAN /\ rows \subseteq Rows
    /\ confirm \in [Confirmations -> Confirming \cup {None}]
    /\ provision \in [Confirmations -> Provisions!Phases]
    /\ job \in [Confirmations -> Jobs \cup {None}]
    /\ ctx \subseteq Confirmations /\ removing \in {None, "machine", "owner"}
    /\ errors \in 0..MaxErrors
    /\ lapses \subseteq {"removal", "late", "canceled", "twice", "refused", "crash"}

(* A registration that is being provisioned can be confirmed, deleted and  *)
(* removed by nobody, so a task must be about to change its status: also   *)
(* when two confirmations race, tasks fail or are canceled at work, and    *)
(* machines and registrations are removed meanwhile.  The code is exposed  *)
(* to a mark set after the task has ended, a task canceled before it is    *)
(* executed, one refused for its user, and a crash.                        *)
ProvisioningIsBacked ==
    Status("provisioning") =>
      \/ lapses \cap {"late", "canceled", "refused", "crash"} # {}
      \/ \E t \in Confirmations :
           provision[t] \in {"waiting", "executing"} /\ confirm[t].id = reg.id

(* A registration that is active has its machine, its disk and everything   *)
(* that belongs to it, whatever earlier tries left of them: of tasks that  *)
(* failed at any step, were canceled, or raced removals.  The code is      *)
(* exposed to two tasks of one registration at work at a time, and to a    *)
(* removal that takes the owner from the next registration of the name.    *)
ActiveIsComplete ==
    Status("active") /\ removing # "machine" =>
      \/ lapses \cap {"twice", "removal", "crash"} # {}
      \/ domain /\ image /\ rows = Rows
=============================================================================
