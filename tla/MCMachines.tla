----------------------------- MODULE MCMachines -----------------------------
(* What a user has of machines: the system of one (Reinstall), its         *)
(* registration in the lightweight cloud, the list of those owned, and the *)
(* ports forwarded to them, under the names they have in their modules.  A *)
(* behaviour takes one part, and the variables of the others stay as they  *)
(* are in one initial state.                                               *)
EXTENDS Reinstall, LightweightRegistration, MachineOwnership, PortForwards, TLC

CONSTANTS r1, r2, r3, v1, v2, i1, i2

VARIABLE part

MCBoth == <<1, 2>>

Symmetric == Permutations({r1, r2}) \cup Permutations({v1, v2})

NoReinstall == Init /\ live = None /\ kind = [t \in Tasks |-> "linux"]
NoForwards == InitForwards /\ pre = <<>>

MCInit ==
    /\ part \in {"reinstall", "registration", "ownership", "forwards"}
    /\ IF part = "reinstall" THEN Init ELSE NoReinstall
    /\ InitRegistration /\ InitOwnership
    /\ IF part = "forwards" THEN InitForwards ELSE NoForwards

MCNext ==
    \/ /\ part = "reinstall" /\ Next
       /\ UNCHANGED <<part, registrationVars, ownershipVars, forwardVars>>
    \/ /\ part = "registration" /\ RegistrationNext
       /\ UNCHANGED <<part, vars, ownershipVars, forwardVars>>
    \/ /\ part = "ownership" /\ OwnershipNext
       /\ UNCHANGED <<part, vars, registrationVars, forwardVars>>
    \/ /\ part = "forwards" /\ ForwardsNext
       /\ UNCHANGED <<part, vars, registrationVars, ownershipVars>>

MCSpec == MCInit /\ [][MCNext]_<<part, vars, registrationVars, ownershipVars, forwardVars>>
=============================================================================
