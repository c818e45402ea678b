---------------------------- MODULE PortForwards ----------------------------
(***************************************************************************)
(* The ports of the host that are forwarded to machines, and the addresses *)
(* of a switch that machines keep for it (service/network, service/ovs).   *)
(* A rule lies in two chains of iptables and is known by its number in the *)
(* first; the addresses lie in a file that each change writes anew.  No    *)
(* lock is taken.  Every change starts a goroutine that saves the chains   *)
(* in a script, from which they are made again when the panel starts.      *)
(***************************************************************************)
EXTENDS Naturals, Sequences, FiniteSets, SequencesExt, NoValue

CONSTANTS
    VMs,         \* machines with one interface at the switch
    Ips,         \* addresses of the switch
    Ports,       \* ports of the host, each with its protocol
    Both,        \* two of them asked for at once: a port of TCP and UDP
    Requests,    \* bound: requests, each made once
    Savers,      \* 1..n. bound: goroutines that save at a time
    MaxFaults   \* bound: commands that fail

Addresses == [VMs -> Ips \cup {None}]
Rules == [port : Ports, ip : Ips, vm : VMs]
Operations ==
    [kind : {"add", "update", "delete", "bind", "unbind"},
     pc : {"resolve", "list", "write", "purge", "info", "drop", "check", "pre", "out"},
     vm : VMs \cup {None}, ip : Ips \cup {None}, list : Addresses \cup {None},
     keys : Seq(Ports), done : SUBSET Rules, todo : SUBSET [id : Nat, rule : Rules],
     info : Rules \cup {None}, back : BOOLEAN]
Savings ==
    [pc : {"start", "out", "write"}, pre : Seq(Rules), out : SUBSET Rules,
     before : SUBSET Savers, old : BOOLEAN]

Done == [pc |-> "done"]

ASSUME ForwardsAssumption ==
    /\ Cardinality(Savers) \in Nat /\ Savers = 1..Cardinality(Savers)
    /\ Both \in Seq(Ports) /\ Len(Both) = 2 /\ Both[1] # Both[2]
    /\ MaxFaults \in Nat
    /\ None \notin {Done} \cup Ips \cup VMs \cup Addresses \cup Rules \cup Operations \cup Savings

VARIABLES
    hosts,       \* dhcp-hosts: the address of each machine, or None
    pre, out,    \* the chains PREROUTING and OUTPUT
    script,      \* rules.sh
    meant,       \* history: the rules made and not deleted, as users were told
    op,          \* requests under way; None before, Done after
    saver,       \* savers under way
    faults,
    windows      \* history: what the properties do not speak of

forwardVars == <<hosts, pre, out, script, meant, op, saver, faults, windows>>

(* A rule: a port of the host, where it leads to, and for whom it was made.*)
Rule(port, ip, vm) == [port |-> port, ip |-> ip, vm |-> vm]

(* Nothing, or what earlier requests made: a rule or two for one machine.  *)
InitForwards ==
    /\ \/ hosts = [v \in VMs |-> None] /\ pre = <<>>
       \/ \E vm \in VMs, ip \in Ips, n \in 1..2 :
            /\ hosts = [v \in VMs |-> IF v = vm THEN ip ELSE None]
            /\ pre = [i \in 1..n |-> Rule(Both[i], ip, vm)]
    /\ out = ToSet(pre) /\ script = [pre |-> pre, out |-> out] /\ meant = out
    /\ op = [r \in Requests |-> None]
    /\ saver = [s \in Savers |-> None]
    /\ faults = 0 /\ windows = {}

Taken(port) == \E i \in 1..Len(pre) : pre[i].port = port

Busy(r) == op[r] \notin {None, Done}
OpAt(r, pc) == Busy(r) /\ op[r].pc = pc
To(r, o) == op' = [op EXCEPT ![r] = o]
OpGo(r, pc) == To(r, [op[r] EXCEPT !.pc = pc])
End(r) == To(r, Done)
Fault == faults < MaxFaults /\ faults' = faults + 1
Window(w, happens) == windows' = windows \cup (IF happens THEN {w} ELSE {})

(* A change lets a saver go.                                               *)
SavePortForwardRules ==
    /\ \E s \in Savers : saver[s] = None
    /\ LET s == CHOOSE x \in Savers : saver[x] = None /\ \A y \in 1..x-1 : saver[y] # None IN
       saver' = [saver EXCEPT ![s] = [pc |-> "start", pre |-> <<>>, out |-> {},
                                      before |-> {}, old |-> FALSE]]

-----------------------------------------------------------------------------
(* Requests.  Rules to delete are taken from the last to the first, so     *)
(* that the numbers of those still to come stay what they are.  A port     *)
(* that is taken is refused at once, and looked at again (IsPortAvailable).*)

Listed(ids) == {[id |-> i, rule |-> pre[i]] : i \in ids}

(* Fault: from the first to the last.                                      *)
Ascending(todo) == CHOOSE e \in todo : \A d \in todo : d.id >= e.id

Descending(todo) == CHOOSE e \in todo : \A d \in todo : d.id =< e.id

Fresh(what, vm, pc) ==
    [kind |-> what, pc |-> pc, vm |-> vm, ip |-> None, list |-> None,
     keys |-> <<>>, done |-> {}, todo |-> {}, info |-> None, back |-> FALSE]

AddPortForward(r, vm, keys) == To(r, [Fresh("add", vm, "resolve") EXCEPT !.keys = keys])

UpdatePortForward(r, id, vm, port) ==
    To(r, [Fresh("update", vm, "resolve") EXCEPT !.keys = <<port>>, !.todo = Listed({id})])

DeletePortForwards(r, ids) == To(r, [Fresh("delete", None, "info") EXCEPT !.todo = Listed(ids)])

BindStaticIP(r, vm, ip) == To(r, [Fresh("bind", vm, "list") EXCEPT !.ip = ip])

UnbindStaticIP(r, vm) == To(r, Fresh("unbind", vm, "list"))

Request(r) ==
    /\ op[r] = None
    /\ \/ \E vm \in VMs : \E keys \in {<<p>> : p \in Ports} \cup {Both} :
             /\ \A k \in DOMAIN keys : ~ Taken(keys[k])
             /\ AddPortForward(r, vm, keys)
       \/ \E id \in 1..Len(pre), vm \in VMs, p \in Ports :
             /\ Taken(p) => p = pre[id].port
             /\ UpdatePortForward(r, id, vm, p)
       \/ \E ids \in (SUBSET (1..Len(pre))) \ {{}} : DeletePortForwards(r, ids)
       \/ \E vm \in VMs : UnbindStaticIP(r, vm)
       \/ \E vm \in VMs, ip \in Ips : BindStaticIP(r, vm, ip)
    /\ UNCHANGED <<hosts, pre, out, script, meant, saver, faults, windows>>

-----------------------------------------------------------------------------
(* Addresses.                                                              *)

Resolved(r) ==
    IF op[r].kind = "update" THEN "info" ELSE IF op[r].kind = "add" THEN "check" ELSE "end"

(* A machine without an address keeps the one it has been leased, or gets  *)
(* a free one.                                                             *)
ResolvePortForwardTargetIP(r) ==
    /\ OpAt(r, "resolve")
    /\ LET vm == op[r].vm
           free == Ips \ {hosts[v] : v \in VMs} IN
       \/ hosts[vm] # None /\ To(r, [op[r] EXCEPT !.pc = Resolved(r), !.ip = hosts[vm]])
       \/ hosts[vm] = None /\ \E ip \in free : To(r, [op[r] EXCEPT !.pc = "list", !.ip = ip])
       \/ hosts[vm] = None /\ free = {} /\ End(r)
    /\ UNCHANGED <<hosts, pre, out, script, meant, saver, faults, windows>>

(* The file is read, and an address another machine keeps is refused.      *)
ListVPCStaticHosts(r) ==
    /\ OpAt(r, "list")
    /\ LET o == op[r] IN
       IF IF o.kind = "unbind" THEN hosts[o.vm] = None
                               ELSE \E v \in VMs \ {o.vm} : hosts[v] = o.ip
       THEN End(r)
       ELSE To(r, [o EXCEPT !.pc = "write", !.list = hosts])
    /\ UNCHANGED <<hosts, pre, out, script, meant, saver, faults, windows>>

(* Rules that lead to the address a machine had so far.                    *)
Used(vm, ip) == \E i \in 1..Len(pre) : pre[i].vm = vm /\ pre[i].ip # ip

UpsertVPCStaticHost(r) ==
    /\ OpAt(r, "write") /\ op[r].kind # "unbind"
    /\ LET o == op[r] IN
       /\ hosts' = [o.list EXCEPT ![o.vm] = o.ip]
       /\ windows' = windows \cup (IF hosts # o.list THEN {"lost"} ELSE {})
                             \cup (IF Used(o.vm, o.ip) THEN {"rebound"} ELSE {})
       /\ IF o.kind = "bind" THEN End(r) ELSE To(r, [o EXCEPT !.pc = Resolved(r), !.list = None])
    /\ UNCHANGED <<pre, out, script, meant, saver, faults>>

RemoveVPCStaticHost(r) ==
    /\ OpAt(r, "write") /\ op[r].kind = "unbind"
    /\ LET o == op[r] IN
       /\ hosts' = [o.list EXCEPT ![o.vm] = None]
       /\ Window("lost", hosts # o.list)
       /\ To(r, [o EXCEPT !.pc = "purge", !.ip = o.list[o.vm], !.list = None])
    /\ UNCHANGED <<pre, out, script, meant, saver, faults>>

(* The rules that lead to the address, whoever has it by now.              *)
RemovePortForwardsForIP(r) ==
    /\ OpAt(r, "purge")
    /\ LET ids == {i \in 1..Len(pre) : pre[i].ip = op[r].ip} IN
       /\ IF ids = {} THEN End(r) ELSE To(r, [op[r] EXCEPT !.pc = "info", !.todo = Listed(ids)])
       /\ Window("reused", \E i \in ids : pre[i].vm # op[r].vm)
    /\ UNCHANGED <<hosts, pre, out, script, meant, saver, faults>>

-----------------------------------------------------------------------------
(* Rules.                                                                  *)

(* The numbers another request holds are no longer those of its rules.     *)
Shifts(r, id) ==
    \E q \in Requests \ {r} : Busy(q) /\ \E e \in op[q].todo : e.id >= id

(* The rule a request makes.                                               *)
This(r) == Rule(Head(op[r].keys), op[r].ip, op[r].vm)

(* Another request is still making the rule.                               *)
Unfinished(r, rule) ==
    \E q \in Requests \ {r} :
        Busy(q) /\ (rule \in op[q].done \/ (OpAt(q, "out") /\ This(q) = rule))

(* What the rule of the number says; without one the request ends.         *)
ReadRule(r) ==
    /\ OpAt(r, "info")
    /\ LET id == Descending(op[r].todo).id IN
       IF id \in 1..Len(pre)
       THEN To(r, [op[r] EXCEPT !.pc = "drop", !.info = pre[id]])
       ELSE End(r)
    /\ UNCHANGED <<hosts, pre, out, script, meant, saver, faults, windows>>

Rest(r) ==
    LET o == op[r]
        rest == [o EXCEPT !.todo = @ \ {Descending(@)}, !.info = None] IN
    CASE rest.todo # {}     -> [rest EXCEPT !.pc = "info"]
      [] o.kind = "update" -> [rest EXCEPT !.pc = "check", !.info = o.info]
      [] OTHER             -> Done

Drop(r) ==
    /\ OpAt(r, "drop")
    /\ LET o == op[r]
           e == Descending(o.todo)
           id == e.id IN
       /\ pre' = IF id \in 1..Len(pre) THEN RemoveAt(pre, id) ELSE pre
       /\ out' = out \ {o.info}
       /\ meant' = meant \ {e.rule}
       /\ windows' = windows \cup (IF Shifts(r, id) THEN {"shifted"} ELSE {})
                             \cup (IF Unfinished(r, o.info) THEN {"unfinished"} ELSE {})
       /\ To(r, Rest(r))
    /\ UNCHANGED <<hosts, script, faults>>

(* Fault: what was deleted is not saved.                                   *)
DeleteUnsaved(r) == Drop(r) /\ UNCHANGED saver

(* An unbinding saves once, at its end.                                    *)
deletePortForwardWithOptions(r) ==
    /\ Drop(r)
    /\ IF op[r].kind = "unbind" /\ Rest(r) # Done THEN UNCHANGED saver
       ELSE SavePortForwardRules

(* A rule that was to be changed is made again as it was.                  *)
Failed(r) ==
    IF op[r].kind = "update" /\ ~ op[r].back
    THEN LET old == op[r].info IN
         To(r, [op[r] EXCEPT !.pc = "check", !.back = TRUE, !.done = {},
                  !.vm = old.vm, !.ip = old.ip, !.keys = <<old.port>>])
    ELSE End(r)

IsPortAvailable(r) ==
    /\ OpAt(r, "check")
    /\ LET taken == \E i \in 1..Len(op[r].keys) : Taken(op[r].keys[i]) IN
       /\ IF taken THEN Failed(r) ELSE OpGo(r, "pre")
       /\ Window("taken", taken /\ op[r].back)
    /\ UNCHANGED <<hosts, pre, out, script, meant, saver, faults>>

(* Of the two rules of TCP and UDP the first stays when the second fails.  *)
HalfMade(r) == op[r].done # {} \/ op[r].back

AppendPrerouting(r) ==
    /\ OpAt(r, "pre")
    /\ \/ /\ pre' = Append(pre, This(r))
          /\ Window("taken", Taken(Head(op[r].keys)))
          /\ OpGo(r, "out") /\ UNCHANGED faults
       \/ /\ Fault /\ UNCHANGED pre
          /\ Window("failed", HalfMade(r)) /\ Failed(r)
    /\ UNCHANGED <<hosts, out, script, meant, saver>>

First(rule) == CHOOSE i \in 1..Len(pre) : pre[i] = rule /\ \A j \in 1..i-1 : pre[j] # rule

AppendOutput(r) ==
    /\ OpAt(r, "out")
    /\ LET o == op[r]
           done == o.done \cup {This(r)} IN
       /\ out' = out \cup {This(r)}
       /\ Window("unbound", hosts[o.vm] # o.ip)
       /\ IF Len(o.keys) > 1
          THEN /\ To(r, [o EXCEPT !.pc = "pre", !.keys = Tail(@), !.done = done])
               /\ UNCHANGED <<meant, saver>>
          ELSE /\ End(r) /\ meant' = meant \cup done /\ SavePortForwardRules
    /\ UNCHANGED <<hosts, pre, script, faults>>

(* A saver saw the rule that is taken back, and nobody saves again.        *)
Seen(r) ==
    /\ op[r].kind = "add"
    /\ \/ This(r) \in ToSet(script.pre)
       \/ \E s \in Savers : saver[s] # None /\ This(r) \in ToSet(saver[s].pre)

(* The rule of the first chain is taken back.                              *)
OutputFails(r) ==
    /\ OpAt(r, "out") /\ Fault
    /\ LET here == This(r) \in ToSet(pre) IN
       /\ pre' = IF here THEN RemoveAt(pre, First(This(r))) ELSE pre
       /\ windows' = windows \cup (IF HalfMade(r) THEN {"failed"} ELSE {})
                             \cup (IF here /\ Shifts(r, First(This(r))) THEN {"shifted"} ELSE {})
                             \cup (IF Seen(r) THEN {"seen"} ELSE {})
    /\ Failed(r)
    /\ UNCHANGED <<hosts, out, script, meant, saver>>

(* ufw fails when both chains have the rule, which stays.                  *)
FirewallFails(r) ==
    /\ OpAt(r, "out") /\ Fault
    /\ out' = out \cup {This(r)}
    /\ Window("failed", TRUE) /\ Failed(r)
    /\ UNCHANGED <<hosts, pre, script, meant, saver>>

-----------------------------------------------------------------------------
(* Savers.  One that read the chains before another and writes after it    *)
(* puts the older rules back in the script.                                *)

ReadPrerouting(s) ==
    /\ saver[s] # None /\ saver[s].pc = "start"
    /\ saver' = [saver EXCEPT ![s].pc = "out", ![s].pre = pre,
                   ![s].before = {t \in Savers : saver[t] # None /\ saver[t].pc # "start"}]
    /\ UNCHANGED <<hosts, pre, out, script, meant, op, faults, windows>>

ReadOutput(s) ==
    /\ saver[s] # None /\ saver[s].pc = "out"
    /\ saver' = [saver EXCEPT ![s].pc = "write", ![s].out = out]
    /\ UNCHANGED <<hosts, pre, out, script, meant, op, faults, windows>>

WriteScript(s) ==
    /\ saver[s] # None /\ saver[s].pc = "write"
    /\ script' = [pre |-> saver[s].pre, out |-> saver[s].out]
    /\ Window("overtaken", saver[s].old)
    /\ saver' = [t \in Savers |->
                   IF t = s \/ saver[t] = None THEN None
                   ELSE [saver[t] EXCEPT !.before = @ \ {s}, !.old = @ \/ t \in saver[s].before]]
    /\ UNCHANGED <<hosts, pre, out, meant, op, faults>>

-----------------------------------------------------------------------------
(* The panel starts again, alone or with its host, whose chains are empty  *)
(* then.  It makes the rules of the script that are missing, saves them,   *)
(* and takes requests thereafter.                                          *)

Quiet == \A r \in Requests : ~ Busy(r)
Saved == \A s \in Savers : saver[s] = None

(* Those of a sequence that are not there yet, in their order.             *)
Missing(s, there) ==
    LET m[i \in 0..Len(s)] ==
          IF i = 0 THEN <<>> ELSE IF s[i] \in there THEN m[i-1] ELSE Append(m[i-1], s[i])
    IN m[Len(s)]

RestorePortForwardRules ==
    \E rebooted \in BOOLEAN :
        LET kept == IF rebooted THEN <<>> ELSE pre IN
        /\ pre' = kept \o Missing(script.pre, ToSet(kept))
        /\ out' = script.out \cup (IF rebooted THEN {} ELSE out)
        /\ script' = [pre |-> pre', out |-> out']
        /\ Window("crash", ~ Quiet \/ ~ Saved)
        /\ op' = [r \in Requests |-> IF Busy(r) THEN Done ELSE op[r]]
        /\ saver' = [s \in Savers |-> None]
        /\ UNCHANGED <<hosts, meant, faults>>

(* Nothing is claimed of what follows a window; the model ends there.      *)
ForwardsNext ==
    /\ windows = {}
    /\ \/ RestorePortForwardRules
       \/ \E r \in Requests :
            \/ Request(r)
            \/ ResolvePortForwardTargetIP(r) \/ ListVPCStaticHosts(r)
            \/ UpsertVPCStaticHost(r) \/ RemoveVPCStaticHost(r) \/ RemovePortForwardsForIP(r)
            \/ ReadRule(r) \/ deletePortForwardWithOptions(r)
            \/ IsPortAvailable(r) \/ AppendPrerouting(r) \/ AppendOutput(r)
            \/ OutputFails(r) \/ FirewallFails(r)
       \/ \E s \in Savers : ReadPrerouting(s) \/ ReadOutput(s) \/ WriteScript(s)

ForwardsSpec == InitForwards /\ [][ForwardsNext]_forwardVars

-----------------------------------------------------------------------------
ForwardsTypeOK ==
    /\ hosts \in Addresses
    /\ pre \in Seq(Rules) /\ out \subseteq Rules /\ meant \subseteq Rules
    /\ script \in [pre : Seq(Rules), out : SUBSET Rules]
    /\ op \in [Requests -> Operations \cup {None, Done}]
    /\ saver \in [Savers -> Savings \cup {None}]
    /\ faults \in 0..MaxFaults

(* The file gives no address to two machines, although requests read and   *)
(* write it without a lock; and when no request is under way, the rules in *)
(* both chains are those users made and did not delete, each leading to    *)
(* the address its machine keeps (port_forward.go:488-510, 590-620,        *)
(* static_ip.go:646-676).                                                  *)
ForwardsAreMeant ==
    /\ \A v, w \in VMs : v # w /\ hosts[v] = hosts[w] => hosts[v] = None
    /\ Quiet /\ windows = {} =>
         /\ ToSet(pre) = meant /\ out = meant /\ Len(pre) = Cardinality(meant)
         /\ \A x \in meant : hosts[x.vm] = x.ip

(* When all savers have ended the script has the rules in force, whatever  *)
(* changed while they read the chains (port_forward_persist.go:129-186).   *)
SavedIsLive ==
    Quiet /\ Saved /\ windows = {} => script = [pre |-> pre, out |-> out]
=============================================================================
