--------------------------- MODULE MCV2WeeklyCycle ---------------------------
(* Bounds for V2WeeklyCycle: two securities, one of them held from before,   *)
(* at prices that divide no amount evenly, so that halves round both ways    *)
(* and a plan buys and trims; the quotes of a feed are of one time or an     *)
(* instant apart.  One candidate is taken; the security held ranks first,    *)
(* and the other one may lack a date the benchmark has.                      *)
EXTENDS V2WeeklyCycle, TLC

CONSTANTS t1, t2, c1, c2, a, b, MaxApart, Splits, Gaps

(* Every answer names both securities, one of them possibly to be removed.  *)
Allocation(wa, wb) ==
  [weights |-> [s \in {a, b} |-> IF s = a THEN wa ELSE wb],
   named   |-> IF wa > 0 THEN {a, b} ELSE {b}]

(* Splits: the weights of b, the rest of two units going to a.              *)
MCAllocations == {Allocation(2 - w, w) : w \in Splits}

MCFeeds ==
  {[s \in {a, b} |-> IF s = a THEN [at |-> x, price |-> 2]
                              ELSE [at |-> y, price |-> 3]] :
     <<x, y>> \in {p \in (1..MaxTime) \X (1..MaxTime) :
                    p[1] <= p[2] /\ p[2] <= p[1] + MaxApart}}

(* Two dates are needed, also in common with the benchmark.                 *)
Bars(days, score) ==
  [days |-> days, sound |-> TRUE, price |-> 2, volume |-> 2, score |-> score]

MCMarkets ==
  {[listed    |-> {a, b},
    bars      |-> [s \in {a, b} |->
                     IF s = a THEN Bars(days, 1) ELSE Bars({1, 2}, 2)],
    benchmark |-> Bars({1, 2}, 0)] :
     days \in {{1, 2}} \cup (IF Gaps THEN {{0, 1}} ELSE {})}

MCTicker == [s \in {a, b} |-> IF s = a THEN 1 ELSE 2]

MCInitialHeld == [s \in {a, b} |-> IF s = b THEN 2 ELSE 0]

MCPurchase == [security |-> a, quantity |-> 2, cost |-> 4]

Symmetry == Permutations(Threads) \cup Permutations(Cycles)
=============================================================================
