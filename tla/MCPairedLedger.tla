---------------------------- MODULE MCPairedLedger ----------------------------
(* Bounds for PairedLedger: one stock at a fixed price; SPY rises and falls, *)
(* so that the same cash buys different quantities; quotes of the two come   *)
(* together or at the pairs of instants in Apart.                            *)
EXTENDS PairedLedger, TLC

CONSTANTS t1, t2, stock, spy

(* SPY's quote is the earlier one of a market date.                         *)
Apart == {<<3, 4>>}

SpyPrice(at) == IF at = 2 THEN 3 ELSE 2

MCFeeds ==
  {[s \in {stock, spy} |-> IF s = spy THEN [at |-> a, price |-> SpyPrice(a)]
                                      ELSE [at |-> b, price |-> 2]] :
     <<a, b>> \in {<<i, i>> : i \in 1..MaxTime} \cup Apart}

(* The second cycle raises the position the first one bought.               *)
FirstBuy  == [security |-> stock, weight |-> 40, at |-> 1]
SecondBuy == [security |-> stock, weight |-> 80, at |-> 1]

MCBuys == {FirstBuy, SecondBuy}

Symmetry == Permutations(Threads)

(* Runs in which SPY and the stock are always quoted together and nothing    *)
(* is as late as MaxTime.                                                    *)
IsPlain(r) ==
  /\ \A h \in {r.managed, r.benchmark} : \A i \in DOMAIN h : h[i].at < MaxTime
  /\ \A q \in r.quotes : q.at < MaxTime /\ \A s \in Securities :
       \E other \in r.quotes : other.security = s /\ other.at = q.at
  /\ \A f \in r.funding : f < MaxTime

(* The second cycle only trades after the first, in a run that is plain up   *)
(* to then, and without a Cash Event.                                        *)
IsNarrow(r) ==
  \/ \A e \in r.executions : e.buy = FirstBuy
  \/ Cardinality(r.executions) = 2 /\ r.funding = {0} /\ IsPlain(r)

(* Two commands are in flight at once only over plain runs that one cycle at *)
(* most has traded, of three snapshots at most; one at a time everything     *)
(* within MaxTime and Apart happens.                                         *)
Narrow ==
  LET runs == {run} \cup {proposals[t] : t \in Threads}
  IN /\ \A r \in runs : IsNarrow(r)
     /\ \/ Cardinality({t \in Threads : proposals[t] # NoProposal}) <= 1
        \/ \A r \in runs : /\ IsPlain(r)
                           /\ Cardinality(r.executions) <= 1
                           /\ Len(r.managed) <= 3
=============================================================================
