----------------------------- MODULE V2Lifecycle -----------------------------
(***************************************************************************)
(* What a V2 cycle promises, one cycle at a time: it is planned, given one *)
(* human outcome, and once approved applied at most once.                  *)
(***************************************************************************)
CONSTANT Cycles

VARIABLE stage

Init == stage = [c \in Cycles |-> "ABSENT"]

Advance(c, from, to) ==
  /\ stage[c] = from
  /\ stage' = [stage EXCEPT ![c] = to]

Next == \E c \in Cycles :
          \/ Advance(c, "ABSENT", "PLANNED")
          \/ Advance(c, "PLANNED", "APPROVED")
          \/ Advance(c, "PLANNED", "REJECTED")
          \/ Advance(c, "APPROVED", "EXECUTED")

Spec == Init /\ [][Next]_stage
=============================================================================
