---------------------------- MODULE AdmissionGate ----------------------------
(***************************************************************************)
(* What a BackpressureGate promises its callers: a task asks, and is let   *)
(* in while fewer than Capacity tasks are inside, or is refused; one that  *)
(* is inside leaves in its own time.                                       *)
(***************************************************************************)
EXTENDS Integers, FiniteSets

CONSTANTS Task, Capacity

VARIABLE stage    \* "out", "asking" or "in"

Inside == {t \in Task : stage[t] = "in"}

Move(t, from, to) == stage[t] = from /\ stage' = [stage EXCEPT ![t] = to]

Init == stage = [t \in Task |-> "out"]

Ask(t) == Move(t, "out", "asking")

Admit(t) == Cardinality(Inside) < Capacity /\ Move(t, "asking", "in")

Refuse(t) == Move(t, "asking", "out")

Leave(t) == Move(t, "in", "out")

Next == \E t \in Task : Ask(t) \/ Admit(t) \/ Refuse(t) \/ Leave(t)

Spec == Init /\ [][Next]_stage
=============================================================================
