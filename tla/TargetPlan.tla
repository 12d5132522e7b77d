------------------------------ MODULE TargetPlan ------------------------------
(***************************************************************************)
(* From a complete target allocation to one batch of trades: the diff      *)
(* _derive_legs computes against a portfolio and a price snapshot, the     *)
(* System Safety check of the batch, and the portfolio that applying it    *)
(* gives.  A unit of quantity is the code's 0.00000001 share; weights are  *)
(* numbers of WeightUnits, and what the positions leave is cash.           *)
(* Cost basis is left out: no rule of the batch depends on it.             *)
(*                                                                         *)
(* A plan is [original, weights, prices]: a book [cash, held], a weight    *)
(* for every security, and [at, price] for each security of the snapshot.  *)
(***************************************************************************)
EXTENDS Integers, FiniteSets, FiniteSetsExt, Functions

CONSTANTS Securities, WeightUnits

ASSUME WeightAssumption == WeightUnits \in Nat \ {0}

Books == [cash : Int, held : [Securities -> Nat]]

Targets == {w \in [Securities -> 0..WeightUnits] :
              SumFunctionOnSet(w, Securities) <= WeightUnits}

(* An answer of the manager: an intent for every security it names, which  *)
(* is to REMOVE it where its weight is zero.                               *)
IsAllocation(a) ==
  /\ a.weights \in Targets
  /\ {s \in Securities : a.weights[s] > 0} \subseteq a.named
  /\ a.named \subseteq Securities

Held(book) == {s \in Securities : book.held[s] > 0}

(* Mutant: fractions are cut off. *)
RoundDown(n, d) == n \div d

(* ROUND_HALF_EVEN of n / d to a whole number of units, for n >= 0.        *)
HalfEven(n, d) ==
  LET floor == n \div d
      twice == 2 * (n % d)
  IN IF twice > d \/ (twice = d /\ floor % 2 = 1) THEN floor + 1 ELSE floor

Priced(plan) == DOMAIN plan.prices

Value(book, prices) ==
  book.cash + SumFunction([s \in Held(book) |-> book.held[s] * prices[s].price])

Desired(plan, s) ==
  HalfEven(Value(plan.original, plan.prices) * plan.weights[s],
           WeightUnits * plan.prices[s].price)

Delta(plan, s) == Desired(plan, s) - plan.original.held[s]

(* The securities with a leg; a difference that rounds to nothing has none. *)
Legs(plan) == {s \in Priced(plan) : Delta(plan, s) # 0}

(* The book after all sales and all purchases.                             *)
Result(plan) ==
  [cash |-> plan.original.cash
              - SumFunction([s \in Priced(plan) |->
                               Delta(plan, s) * plan.prices[s].price]),
   held |-> [s \in Securities |->
               IF s \in Priced(plan) THEN Desired(plan, s) ELSE 0]]

(* Mutant: the cash left is not looked at. *)
AlwaysSafe(plan) == TRUE

(* validate_batch_plan: rounding up may ask for more cash than there is.   *)
IsSafe(plan) == Result(plan).cash >= 0
=============================================================================
