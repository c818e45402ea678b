--------------------------- MODULE TaskLifecycle ---------------------------
(***************************************************************************)
(* What the task queue promises to those who submit: every submitted task  *)
(* is dealt with exactly once.  It is executed at most once, by one worker *)
(* at a time and never again, and it does not wait for ever.  A task may   *)
(* be settled without being executed, when it was canceled in time.        *)
(***************************************************************************)
EXTENDS Naturals, FiniteSets

CONSTANTS Tasks, Slots   \* Slots: how many tasks may execute at a time

VARIABLE phase

Phases == {"new", "waiting", "executing", "settled"}

Init == phase = [t \in Tasks |-> "new"]

Move(t, from, to) == phase[t] = from /\ phase' = [phase EXCEPT ![t] = to]

Accept(t) == Move(t, "new", "waiting")

Execute(t) ==
    /\ Cardinality({s \in Tasks : phase[s] = "executing"}) < Slots
    /\ Move(t, "waiting", "executing")

Skip(t) == Move(t, "waiting", "settled")

Settle(t) == Move(t, "executing", "settled")

Deal(t) == Execute(t) \/ Skip(t) \/ Settle(t)

Next == \E t \in Tasks : Accept(t) \/ Deal(t)

(* Nothing forces a task to be submitted; a submitted one is dealt with.   *)
Spec ==
    /\ Init
    /\ [][Next]_phase
    /\ \A t \in Tasks : WF_phase(Settle(t)) /\ SF_phase(Execute(t) \/ Skip(t))
=============================================================================
