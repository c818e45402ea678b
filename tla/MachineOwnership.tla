-------------------------- MODULE MachineOwnership --------------------------
(***************************************************************************)
(* What a user owns: the list of machines in the user's file               *)
(* (service/user/quota.go), by which requests are authorised and the       *)
(* number of machines is limited, and the polkit rules made of it.  A      *)
(* request to make or delete a machine changes the list as soon as it has  *)
(* submitted its task; the file is read, and written later, by each        *)
(* request on its own.  An administrator's form replaces the list.         *)
(***************************************************************************)
EXTENDS Naturals, FiniteSets, QueueSlots

CONSTANTS
    Names,        \* of machines
    Changes,      \* requests; those of users submit a task each
    MaxVM,        \* of the user
    MaxFailures   \* bound: tasks that fail

Asked == [op : {"create", "delete", "assign"}, vm : Names \cup {None}, read : SUBSET Names,
          pc : {"submit", "form", "read", "write", "rules", "install", "done"}]

ASSUME OwnershipAssumption ==
    /\ MaxVM \in Nat /\ MaxFailures \in Nat /\ None \notin Names \cup Asked

VARIABLES
    list, rules,   \* the user's file, and what the polkit rules say of it
    exists,        \* machines that are there
    req,           \* requests under way
    fate,          \* their tasks, as the queue promises them
    failures,
    apart,         \* history: names for which a task failed or was canceled,
                   \* and those an administrator took away
    races          \* history: what the property does not speak of

ownershipVars == <<list, rules, exists, req, fate, failures, apart, races>>

Changing == INSTANCE TaskLifecycle WITH Tasks <- Changes, phase <- fate

InitOwnership ==
    /\ list = {} /\ rules = {} /\ exists = {}
    /\ req = [r \in Changes |-> None]
    /\ Changing!Init
    /\ failures = 0 /\ apart = {} /\ races = {}

ReqAt(r, pc) == req[r] # None /\ req[r].pc = pc
ReqGo(r, pc) == req' = [req EXCEPT ![r].pc = pc]
Asks(r, o, v, read, pc) == req' = [req EXCEPT ![r] = [op |-> o, vm |-> v, read |-> read, pc |-> pc]]
Race(b, w) == races' = races \cup (IF b THEN {w} ELSE {})

Others(r) == {s \in Changes \ {r} : req[s] # None}
Updating == {"write", "rules", "install"}
Overlaps(r) == \E s \in Others(r) : req[s].pc \in Updating

(* A name whose request or task is not over.                               *)
Unsettled(v) ==
    \E r \in Changes : /\ req[r] # None /\ req[r].vm = v
                       /\ req[r].pc # "done" \/ fate[r] \in {"waiting", "executing"}

-----------------------------------------------------------------------------
(* SelfCloneVm: CheckQuota counts the list.                                *)
CheckQuota(r, v) ==
    /\ req[r] = None /\ ~ Unsettled(v) /\ v \notin exists \cup list
    /\ Cardinality(list) + 1 =< MaxVM
    /\ Asks(r, "create", v, {}, "submit")
    /\ Race(\E s \in Others(r) : req[s].op = "create" /\ req[s].pc \in {"submit", "read", "write"},
            "quota")
    /\ UNCHANGED <<list, rules, exists, fate, failures, apart>>

SelfDeleteVm(r, v) ==
    /\ req[r] = None /\ ~ Unsettled(v) /\ v \in exists /\ v \in list
    /\ Asks(r, "delete", v, {}, "submit")
    /\ UNCHANGED <<list, rules, exists, fate, failures, apart, races>>

SubmitWithStruct(r) ==
    /\ ReqAt(r, "submit") /\ Changing!Accept(r)
    /\ ReqGo(r, "read")
    /\ UNCHANGED <<list, rules, exists, failures, apart, races>>

(* The administrator's form shows the list; what is chosen of it is        *)
(* written later, whatever the list is then.                               *)
LoadForm(r) ==
    /\ req[r] = None /\ fate[r] = "new"
    /\ Asks(r, "assign", None, list, "form")
    /\ UNCHANGED <<list, rules, exists, fate, failures, apart, races>>

AssignVMsToUser(r) ==
    /\ ReqAt(r, "form")
    /\ \E chosen \in SUBSET req[r].read :
         list' = chosen /\ apart' = apart \cup (req[r].read \ chosen)
    /\ ReqGo(r, "rules")
    /\ Race(Overlaps(r) \/ list # req[r].read, "overlap")
    /\ UNCHANGED <<rules, exists, fate, failures>>

-----------------------------------------------------------------------------
(* AddVMToUser and RemoveVMFromUser.                                       *)

GetUserVMList(r) ==
    /\ ReqAt(r, "read")
    /\ req' = [req EXCEPT ![r].read = list,
                          ![r].pc = IF req[r].op = "create" /\ req[r].vm \in list
                                    THEN "done" ELSE "write"]
    /\ Race(Overlaps(r), "overlap")
    /\ UNCHANGED <<list, rules, exists, fate, failures, apart>>

WriteList(r) ==
    /\ ReqAt(r, "write")
    /\ list' = IF req[r].op = "create" THEN req[r].read \cup {req[r].vm}
               ELSE req[r].read \ {req[r].vm}
    /\ ReqGo(r, "rules")
    /\ UNCHANGED <<rules, exists, fate, failures, apart, races>>

(* regeneratePolkitRules reads the lists, and installs what it made.       *)
ReadForRules(r) ==
    /\ ReqAt(r, "rules")
    /\ req' = [req EXCEPT ![r].read = list, ![r].pc = "install"]
    /\ UNCHANGED <<list, rules, exists, fate, failures, apart, races>>

(* Fault: of a deletion the rules are left.                                *)
InstallAdded(r) ==
    /\ ReqAt(r, "install") /\ ReqGo(r, "done")
    /\ rules' = IF req[r].op = "delete" THEN rules ELSE req[r].read
    /\ UNCHANGED <<list, exists, fate, failures, apart, races>>

InstallRules(r) ==
    /\ ReqAt(r, "install") /\ ReqGo(r, "done")
    /\ rules' = req[r].read
    /\ UNCHANGED <<list, exists, fate, failures, apart, races>>

-----------------------------------------------------------------------------
(* The tasks.  Nothing gives the list back what a request changed in it.   *)

ExecuteChange(t) ==
    /\ Changing!Execute(t)
    /\ UNCHANGED <<list, rules, exists, req, failures, apart, races>>

Succeed(t) ==
    /\ Changing!Settle(t)
    /\ \/ req[t].op = "create" /\ exists' = exists \cup {req[t].vm} /\ UNCHANGED apart
       \/ /\ req[t].op = "delete"
          /\ exists' = exists \ {req[t].vm} /\ apart' = apart \ {req[t].vm}
    /\ UNCHANGED <<list, rules, req, failures, races>>

FailChange(t) ==
    /\ Changing!Settle(t) /\ failures < MaxFailures /\ failures' = failures + 1
    /\ apart' = apart \cup {req[t].vm}
    /\ UNCHANGED <<list, rules, exists, req, races>>

CancelChange(t) ==
    /\ Changing!Skip(t)
    /\ apart' = apart \cup {req[t].vm}
    /\ UNCHANGED <<list, rules, exists, req, failures, races>>

OwnershipNext ==
    \/ \E r \in Changes :
         \/ \E v \in Names : CheckQuota(r, v) \/ SelfDeleteVm(r, v)
         \/ SubmitWithStruct(r) \/ LoadForm(r) \/ AssignVMsToUser(r)
         \/ GetUserVMList(r) \/ WriteList(r) \/ ReadForRules(r) \/ InstallRules(r)
    \/ \E t \in Changes : ExecuteChange(t) \/ Succeed(t) \/ FailChange(t) \/ CancelChange(t)

OwnershipSpec == InitOwnership /\ [][OwnershipNext]_ownershipVars

-----------------------------------------------------------------------------
OwnershipTypeOK ==
    /\ {list, rules, exists, apart} \subseteq SUBSET Names
    /\ req \in [Changes -> Asked \cup {None}]
    /\ fate \in [Changes -> Changing!Phases] /\ failures \in 0..MaxFailures
    /\ races \subseteq {"quota", "overlap"}

(* Whenever nothing is under way, the user's list, the rules made of it    *)
(* and the machines there are agree, and the user has no more machines     *)
(* than allowed: at whatever pace the tasks of earlier requests ended.     *)
(* The code is exposed to two updates of the list at a time, to a form     *)
(* older than the list, to a second check before the first request is in   *)
(* the list, and to tasks that fail or are canceled (apart).               *)
OwnedIsListed ==
    (\A v \in Names : ~ Unsettled(v)) /\ (\A r \in Changes : req[r] # None => req[r].pc = "done") =>
      \/ "overlap" \in races
      \/ /\ rules = list
         /\ list \ apart = exists \ apart
         /\ "quota" \in races \/ apart # {} \/ Cardinality(exists) =< MaxVM
=============================================================================
