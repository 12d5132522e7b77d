----------------------------- MODULE MCResearchV3 -----------------------------
(* Bounds for ResearchV3: three builds over two companies and one slot a day, *)
(* with a clock that crosses a date and outlives the freshness of a version.  *)
EXTENDS ResearchV3, TLC

CONSTANTS b1, b2, b3, x, y

Symmetry == Permutations(Builds) \cup Permutations(Securities)
=============================================================================
