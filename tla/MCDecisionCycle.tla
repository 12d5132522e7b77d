--------------------------- MODULE MCDecisionCycle ---------------------------
(* Bounds for DecisionCycle.                                               *)
EXTENDS DecisionCycle, TLC

CONSTANTS t1, t2, c1, c2, c3, k1

Symmetry == Permutations(Threads) \cup Permutations(Cycles)

Stamps(r) == {b.created : b \in r.batches} \cup {j.at : j \in r.journals}
               \cup {a.at : a \in r.approvals}

Revisions(r) == {b \in r.batches : b.parent # NoId}

(* A third cycle only appears as a second revision, over decisions that    *)
(* fail System Safety, and a third instant only with it: enough for racing *)
(* revisions and a chain of two.                                           *)
IsNarrow(r) ==
  /\ Cardinality(r.batches) > 2 =>
       /\ Cardinality(Revisions(r)) > 1
       /\ r.reviews = {}
       /\ \A j \in r.journals : j.verdict = "BUY_FAILED"
  /\ MaxTime \in Stamps(r) => Cardinality(r.batches) > 2

Narrow == \A r \in {run} \cup {proposals[t] : t \in Threads} : IsNarrow(r)
=============================================================================
