---------------------------- MODULE CycleLifecycle ----------------------------
(***************************************************************************)
(* What a decision cycle promises, seen one cycle at a time: it is         *)
(* researched, decided once by the manager, given one human outcome, and   *)
(* then either executed once or revised once.  No step goes back and no    *)
(* two outcomes meet.  DecisionCycle is shown to implement it.             *)
(***************************************************************************)
CONSTANT Cycles

VARIABLE stage

Stages == {"ABSENT", "RESEARCHED", "JOURNALED", "APPROVED", "REJECTED",
           "EXECUTED", "REVISED"}

Init == stage = [c \in Cycles |-> "ABSENT"]

Advance(c, from, to) ==
  /\ stage[c] = from
  /\ stage' = [stage EXCEPT ![c] = to]

Revise(parent, child) ==
  /\ stage[parent] = "REJECTED"
  /\ stage[child] = "ABSENT"
  /\ stage' = [stage EXCEPT ![parent] = "REVISED", ![child] = "RESEARCHED"]

Next == \E c \in Cycles :
          \/ Advance(c, "ABSENT", "RESEARCHED")
          \/ Advance(c, "RESEARCHED", "JOURNALED")
          \/ Advance(c, "JOURNALED", "APPROVED")
          \/ Advance(c, "JOURNALED", "REJECTED")
          \/ Advance(c, "APPROVED", "EXECUTED")
          \/ \E child \in Cycles : Revise(c, child)

Spec == Init /\ [][Next]_stage
=============================================================================
