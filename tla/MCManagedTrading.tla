--------------------------- MODULE MCManagedTrading ---------------------------
(* Bounds for ManagedTrading: two stocks the portfolio already holds, the    *)
(* second bought at a price it no longer has.                                *)
EXTENDS ManagedTrading, TLC

CONSTANTS t1, t2, c1, c2, k1, k2, value_text, amended_text

Stock(ticker) == [ticker |-> ticker, type |-> "EQUITY", exchange |-> "NYSE",
                  currency |-> "USD"]

S == Stock("S")
A == Stock("A")

MCSecurities == {S, A}

(* Complete baseline evidence on S; on A neither that nor an exchange.       *)
PacketOfS ==
  [ticker |-> "S", type |-> "EQUITY", exchange |-> "NYSE", currency |-> "USD",
   coverage |-> [endpoint \in Endpoints |->
                   [reuse |-> "REUSED_CURRENT", freshness |-> "FRESH",
                    reliability |-> RequiredReliability(endpoint)]],
   metrics |-> {[id |-> metric, formula |-> metric, inputs |-> {"input"},
                 reliability |-> "DERIVED_DETERMINISTIC", freshness |-> "FRESH"] :
                  metric \in BaselineMetrics}]

PacketOfA == [PacketOfS EXCEPT !.ticker = "A", !.exchange = Missing, !.metrics = {}]

MCPackets == [c \in Cycles |-> {PacketOfS, PacketOfA}]

MCRecommendations ==
  {Hold, Buy("S", 20), Buy("S", 25), Buy("S", 60), Buy("A", 30)}

BuyUpTo20 == {Buy("S", 20)}

Feed(at, priceOfS, priceOfA) ==
  [s \in MCSecurities |-> [at |-> at, price |-> IF s = S THEN priceOfS ELSE priceOfA]]

MCFeeds == {Feed(1, 2, 4), Feed(2, 1, 2)}

FeedWithAFallen == {Feed(1, 2, 1)}

MCBook(cash) ==
  [cash |-> cash,
   held |-> [s \in MCSecurities |->
               IF s = S THEN [quantity |-> 1, cost |-> 2, price |-> 2]
                        ELSE [quantity |-> 4, cost |-> 16, price |-> 4]]]

BookWithCash6 == MCBook(6)

BookWithCash2 == MCBook(2)

(* One stamp for the research of each cycle; cycles after the first buy S up *)
(* to 20 percent, and nobody rejects that; a journal that cannot be executed *)
(* is the only one; the policy is edited after the journals.                 *)
IsNarrow(r) ==
  /\ \A b \in r.research : b.created = (IF b.cycle = First THEN 0 ELSE 1)
  /\ \A j \in r.journals :
       j.at > 0 /\ (j.cycle = First <=> j.recommendation # Buy("S", 20))
  /\ \A i, j \in r.journals :
       i.policy = j.policy /\ (i = j \/ IsPassedBuy(i))
  /\ \A a \in r.approvals :
       a.at > 0 /\ (a.decision = "APPROVED" \/ a.cycle = First)
  /\ \A k \in r.checks : k.at > 0

(* Two saves are under way at once when each is an execution, a journal or   *)
(* a refresh; the others race in DecisionCycle.                              *)
Races(p) ==
  \/ p.checks \ run.checks # {}
  \/ p.journals \ run.journals # {}
  \/ p.quotes \ run.quotes # {}

Narrow ==
  /\ \A p \in {run} \cup {proposals[t] : t \in Threads} : IsNarrow(p)
  /\ \/ \E t \in Threads : proposals[t] = NoProposal
     \/ \A t \in Threads : Races(proposals[t])

Symmetry ==
  Permutations(Threads) \cup Permutations(Checks) \cup Permutations(Texts)
=============================================================================
