---------------------------- MODULE MCPriceRefresh ----------------------------
(* Bounds for PriceRefresh: one security quoted at two times and two prices, *)
(* so that a second fetch may repeat a quote, rewrite one or bring a new one. *)
EXTENDS PriceRefresh, TLC

CONSTANTS r1, r2, o1, w1, op1, op2, q1, q2, mem

MCQuotes == [key : {q1, q2}, value : {100, 101}]

MCBatches == {{q} : q \in MCQuotes}

MCArtifacts == {[key |-> mem, value |-> 0]}
=============================================================================
