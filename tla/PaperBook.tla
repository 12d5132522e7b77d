------------------------------- MODULE PaperBook -------------------------------
(***************************************************************************)
(* A paper portfolio, and what PortfolioService computes on it: the        *)
(* purchase that brings a position to a target weight, and the portfolio   *)
(* after the trade.  Weights are percents.  Amounts are whole: a quantity, *)
(* 8 decimals in the code, is one unit.                                    *)
(***************************************************************************)
EXTENDS Naturals, FiniteSets, FiniteSetsExt, Functions

CONSTANT Securities

(* A universe is a list in a file.                                         *)
ASSUME UniverseAssumption == IsFiniteSet(Securities)

(* "price" is Position.market_price, the price of the last purchase.       *)
Positions == [quantity : Nat, cost : Nat, price : Nat]

(* Portfolio, CashBalance and Position refuse negative amounts.            *)
Books == [cash : Nat, held : [Securities -> Positions]]

NotHeld == [quantity |-> 0, cost |-> 0, price |-> 0]

Held(book) == {s \in Securities : book.held[s].quantity > 0}

MarketValue(book, s) == book.held[s].quantity * book.held[s].price

(* The security itself counts at the execution price, the other positions  *)
(* at the price they were last bought for.                                 *)
ValueAt(book, s, price) ==
  book.cash + book.held[s].quantity * price
    + SumFunction([x \in Securities \ {s} |-> MarketValue(book, x)])

(* required_purchase_amount, in hundredths *)
Required(book, s, weight, price) ==
  LET target  == ValueAt(book, s, price) * weight
      current == 100 * book.held[s].quantity * price
  IN IF target > current THEN target - current ELSE 0

(* Mutant: the quantity is rounded up. *)
RoundedUp(book, s, weight, price) ==
  (Min({Required(book, s, weight, price), 100 * book.cash}) + 100 * price - 1)
    \div (100 * price)

(* purchasable_quantity, rounded down *)
Purchasable(book, s, weight, price) ==
  Min({Required(book, s, weight, price), 100 * book.cash}) \div (100 * price)

FullyFeasible(book, s, weight, price) ==
  /\ Required(book, s, weight, price) <= 100 * book.cash
  /\ Purchasable(book, s, weight, price) > 0

(* execute_validated_trade and _fulfilled_portfolio *)
Bought(book, s, weight, price) ==
  LET quantity == Purchasable(book, s, weight, price)
  IN [cash |-> book.cash - quantity * price,
      held |-> [book.held EXCEPT ![s] =
                  [quantity |-> @.quantity + quantity,
                   cost     |-> @.cost + quantity * price,
                   price    |-> price]]]

(* PortfolioValuation: every position at one price source.                 *)
TotalValue(book, prices) ==
  book.cash + SumFunction([s \in Held(book) |-> book.held[s].quantity * prices[s]])
=============================================================================
