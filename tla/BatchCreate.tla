----------------------------- MODULE BatchCreate -----------------------------
(***************************************************************************)
(* A task that makes several machines or containers at a time              *)
(* (service/clone/batch.go, service/lxc/batch.go): a loop hands out slots  *)
(* of a semaphore, a goroutine makes each one, and what came of it is put  *)
(* at its index of the results.  The loop, the goroutines and the user who *)
(* cancels share a context and a mark of cancellation.                     *)
(***************************************************************************)
EXTENDS Naturals, FiniteSets, NoValue

CONSTANTS
    Count,            \* machines asked for
    MaxConcurrency,   \* BatchCloneMaxConcurrency
    MaxErrors         \* bound: errors of commands

ASSUME BatchAssumption ==
    /\ Count \in Nat /\ MaxErrors \in Nat
    /\ None \notin {"ok", "error", "success", "canceled"}

VARIABLES
    batchKind,    \* "vm", or a container "dir" or "zfs"
    loop, index,  \* the loop and its index
    item,         \* the goroutine of each index
    have,         \* what exists on the host of each
    results,
    batchCtx,     \* the context is done
    cancelled,    \* a goroutine met ErrTaskCanceled
    ret,
    errors,
    left,         \* history: indices whose cleaning up failed
    late          \* history: indices whose goroutine found the context done

batchVars == <<batchKind, loop, index, item, have, results, batchCtx, cancelled, ret, errors, left, late>>

Index == 1..Count
BatchKinds == {"vm", "dir", "zfs"}
Whole == IF batchKind = "vm" THEN {"domain", "disk"} ELSE {"container"}

InitBatch ==
    /\ batchKind \in BatchKinds
    /\ loop = "top" /\ index = 1
    /\ item = [i \in Index |-> "none"]
    /\ have = [i \in Index |-> {}]
    /\ results = [i \in Index |-> None]
    /\ batchCtx = FALSE /\ cancelled = FALSE
    /\ ret = None
    /\ errors = 0 /\ left = {} /\ late = {}

ItemAt(i, to) == item[i] = to
GoItem(i, to) == item' = [item EXCEPT ![i] = to]
Has(i, things) == have' = [have EXCEPT ![i] = things]
ItemFault == errors < MaxErrors /\ errors' = errors + 1
Working == {i \in Index : item[i] \notin {"none", "done"}}
Report(i, what) == results' = [results EXCEPT ![i] = what]
Clean == UNCHANGED left
Leaves(i, things) == left' = IF things = {} THEN left ELSE left \cup {i}

-----------------------------------------------------------------------------
(* The user cancels the task, and the loop.                                *)

Cancel ==
    /\ ret = None /\ ~ batchCtx
    /\ batchCtx' = TRUE
    /\ UNCHANGED <<batchKind, loop, index, item, have, results, cancelled, ret, errors, left, late>>

Loop ==
    /\ loop = "top"
    /\ loop' = IF index > Count THEN "wait" ELSE IF batchCtx THEN "drain" ELSE "acquire"
    /\ UNCHANGED <<batchKind, index, item, have, results, batchCtx, cancelled, ret, errors, left, late>>

(* With a slot free and the context done, the select takes either.         *)
Acquire ==
    /\ loop = "acquire"
    /\ \/ /\ Cardinality(Working) < MaxConcurrency
          /\ GoItem(index, "queued") /\ index' = index + 1 /\ loop' = "top"
       \/ batchCtx /\ loop' = "drain" /\ UNCHANGED <<item, index>>
    /\ UNCHANGED <<batchKind, have, results, batchCtx, cancelled, ret, errors, left, late>>

Look(i) ==
    /\ ItemAt(i, "queued")
    /\ IF cancelled \/ batchCtx
       THEN GoItem(i, "done") /\ late' = late \cup {i}
       ELSE GoItem(i, "begin") /\ UNCHANGED late
    /\ UNCHANGED <<batchKind, loop, index, have, results, batchCtx, cancelled, ret, errors, left>>

-----------------------------------------------------------------------------
(* CloneVM.                                                                *)

Unlooped == UNCHANGED <<batchKind, loop, index, ret, late>>

Failed(i, things) ==
    /\ ItemFault
    /\ Has(i, things) /\ Report(i, "error") /\ GoItem(i, "done")
    /\ UNCHANGED <<batchCtx, cancelled>>

(* CheckCanceled: everything is taken away, unless that fails as well.     *)
Canceled(i) ==
    /\ \/ Has(i, {}) /\ UNCHANGED <<left, errors>>
       \/ ItemFault /\ \E t \in SUBSET have[i] : t # {} /\ Has(i, t) /\ Leaves(i, t)
    /\ cancelled' = TRUE /\ batchCtx' = TRUE
    /\ GoItem(i, "done")
    /\ UNCHANGED results

Proceeds(i, things, to) ==
    /\ Has(i, things) /\ GoItem(i, to)
    /\ UNCHANGED <<results, batchCtx, cancelled, errors>>

(* The disk is made, resized, and prepared.  An error before the first     *)
(* look at the context does not remove what was made of it.                *)
CreateDisk(i) ==
    /\ batchKind = "vm" /\ ItemAt(i, "begin")
    /\ \/ Proceeds(i, {"disk"}, "disk") /\ Clean
       \/ \E d \in SUBSET {"disk"} : Failed(i, d) /\ Leaves(i, d)
    /\ Unlooped

CheckItemCanceled(i) ==
    /\ batchKind = "vm" /\ item[i] \in {"disk", "started", "booting"}
    /\ IF batchCtx THEN Canceled(i)
       ELSE /\ Proceeds(i, have[i], CASE ItemAt(i, "disk") -> "define"
                                      [] ItemAt(i, "started") -> "booting"
                                      [] ItemAt(i, "booting") -> "made")
            /\ Clean
    /\ Unlooped

(* Fault: an error leaves the disk.                                        *)
DefineLeavesDisk(i) ==
    /\ batchKind = "vm" /\ ItemAt(i, "define")
    /\ \/ Proceeds(i, {"domain", "disk"}, "start")
       \/ Failed(i, {"disk"})
    /\ Clean /\ Unlooped

DefineDomain(i) ==
    /\ batchKind = "vm" /\ ItemAt(i, "define")
    /\ \/ Proceeds(i, {"domain", "disk"}, "start")
       \/ Failed(i, {})
    /\ Clean /\ Unlooped

(* An error from here on removes the disk of a domain that stays defined.  *)
StartVM(i) ==
    /\ batchKind = "vm" /\ ItemAt(i, "start")
    /\ \/ Proceeds(i, have[i], "started") /\ Clean
       \/ Failed(i, {"domain"}) /\ Leaves(i, {"domain"})
    /\ Unlooped

-----------------------------------------------------------------------------
(* CreateContainer, which does not look at the context.                    *)

(* Of a ZFS clone, an error that comes after the clone leaves it.          *)
cloneContainer(i) ==
    /\ batchKind # "vm" /\ ItemAt(i, "begin")
    /\ \/ Proceeds(i, Whole, "setup") /\ Clean
       \/ Failed(i, {}) /\ Clean
       \/ batchKind = "zfs" /\ Failed(i, Whole) /\ Leaves(i, Whole)
    /\ Unlooped

(* Configuration, record and network; DestroyContainer may itself fail.    *)
SetUpContainer(i) ==
    /\ batchKind # "vm" /\ ItemAt(i, "setup")
    /\ \/ Proceeds(i, Whole, "made") /\ Clean
       \/ Failed(i, {}) /\ Clean
       \/ errors > 0 /\ Failed(i, Whole) /\ Leaves(i, Whole)
    /\ Unlooped

-----------------------------------------------------------------------------
Made(i) ==
    /\ ItemAt(i, "made")
    /\ Report(i, "ok") /\ GoItem(i, "done")
    /\ UNCHANGED <<batchKind, loop, index, have, batchCtx, cancelled, ret, errors, left, late>>

(* Fault: a context that was done without a goroutine meeting it goes      *)
(* unseen, for containers too.                                             *)
ReturnUnlooked ==
    /\ ret = None /\ loop \in {"wait", "drain"} /\ Working = {}
    /\ ret' = IF loop = "drain" \/ cancelled THEN "canceled" ELSE "success"
    /\ UNCHANGED <<batchKind, loop, index, item, have, results, batchCtx, cancelled, errors, left, late>>

(* Only the batch of containers looks at the context once more.            *)
ReturnBatch ==
    /\ ret = None /\ loop \in {"wait", "drain"} /\ Working = {}
    /\ ret' = IF loop = "drain" \/ cancelled \/ (batchKind # "vm" /\ batchCtx)
              THEN "canceled" ELSE "success"
    /\ UNCHANGED <<batchKind, loop, index, item, have, results, batchCtx, cancelled, errors, left, late>>

BatchNext ==
    \/ Cancel \/ Loop \/ Acquire \/ ReturnBatch
    \/ \E i \in Index :
         \/ Look(i) \/ CreateDisk(i) \/ CheckItemCanceled(i) \/ DefineDomain(i) \/ StartVM(i)
         \/ cloneContainer(i) \/ SetUpContainer(i) \/ Made(i)

BatchSpec == InitBatch /\ [][BatchNext]_batchVars

-----------------------------------------------------------------------------
BatchTypeOK ==
    /\ batchKind \in BatchKinds /\ loop \in {"top", "acquire", "wait", "drain"} /\ index \in 1..Count + 1
    /\ item \in [Index -> {"none", "queued", "begin", "disk", "define", "start", "started",
                           "booting", "setup", "made", "done"}]
    /\ have \in [Index -> SUBSET Whole]
    /\ results \in [Index -> {None, "ok", "error"}]
    /\ batchCtx \in BOOLEAN /\ cancelled \in BOOLEAN /\ ret \in {None, "success", "canceled"}
    /\ errors \in 0..MaxErrors /\ left \subseteq Index /\ late \subseteq Index

(* A batch that ended well says of every machine what came of it, and each *)
(* one it reports is there: with goroutines, the loop and a cancel in any  *)
(* order.  The code is exposed, for machines, to a cancel that only a      *)
(* goroutine not yet begun meets: the task succeeds without that one.      *)
SuccessIsComplete ==
    ret = "success" => \A i \in Index :
        /\ results[i] = None => batchKind = "vm" /\ i \in late
        /\ results[i] = "ok" => have[i] = Whole

(* What was not made is not left behind either, by an error or a cancel at *)
(* any step; and what is there when the batch ends is in its results.  The *)
(* code is exposed to errors of the cleaning up, and to the steps without  *)
(* one (left).                                                             *)
NothingHalfMade ==
    ret # None => \A i \in Index \ left :
        have[i] = IF results[i] = "ok" THEN Whole ELSE {}

(* As the comment of BatchCreateContainer has it, a failed CreateContainer *)
(* brings its own rollback (here after a single error).                    *)
ErrorIsRolledBack ==
    batchKind # "vm" /\ errors <= 1 => \A i \in Index : results[i] = "error" => have[i] = {}
=============================================================================
