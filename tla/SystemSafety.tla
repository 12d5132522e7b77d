----------------------------- MODULE SystemSafety -----------------------------
(***************************************************************************)
(* System Safety: the deterministic rules a recommendation must pass, at   *)
(* the journal and again at the execution, and the trade they authorize.   *)
(*                                                                         *)
(* A security is an exact identity [ticker, type, exchange, currency]; a   *)
(* research packet has the same fields, of which exchange and currency may *)
(* be Missing.  A recommendation is [action, ticker, weight].  A quote has *)
(* a time "at" and a market date "day"; the validation has a time "at" and *)
(* "today", its date in the time zone the caller's stamp carries.          *)
(***************************************************************************)
EXTENDS PaperBook, ValuePolicy

CONSTANTS
  Missing,        \* MissingData, and the absence of a quote or packet
  BaseCurrency    \* base_currency of the portfolio

NoQuote == [security |-> Missing, at |-> 0, day |-> 0, price |-> 0]

NoPacket == [ticker |-> Missing]

Hold == [action |-> "HOLD", ticker |-> Missing, weight |-> 0]

Buy(ticker, weight) == [action |-> "BUY", ticker |-> ticker, weight |-> weight]

(* The one packet of a batch a BUY may name: _verify_buy_ticker.           *)
HasPacket(batch, ticker) ==
  Cardinality({p \in batch : p.ticker = ticker}) = 1

(* _verify_recommendation; the evidence it cites is not modelled.          *)
IsVerified(batch, recommendation) ==
  recommendation.action = "BUY" => HasPacket(batch, recommendation.ticker)

PacketFor(batch, recommendation) ==
  IF recommendation.action = "HOLD" THEN NoPacket
  ELSE CHOOSE p \in batch : p.ticker = recommendation.ticker

(* Missing fields match anything.                                          *)
SecurityMatchesPacket(security, packet) ==
  /\ security.ticker = packet.ticker /\ security.type = packet.type
  /\ \A field \in {"exchange", "currency"} :
       packet[field] = Missing \/ packet[field] = security[field]

(* _packet_security: the quote of a journal needs an exact identity.       *)
HasSecurity(packet) == packet.exchange # Missing /\ packet.currency # Missing

PacketSecurity(packet) ==
  [ticker |-> packet.ticker, type |-> packet.type,
   exchange |-> packet.exchange, currency |-> packet.currency]

-----------------------------------------------------------------------------
(* DeterministicRiskValidator.validate: each rule that can fail.  Those    *)
(* about the inputs come first; with one of them failed the purchase is    *)
(* not calculated.                                                         *)

RuleIds == {"PRICE_OBSERVATION_REQUIRED", "PROHIBITED_TRADE_MECHANICS",
            "SECURITY_IDENTITY_MATCH", "PORTFOLIO_CURRENCY_MATCH",
            "PRICE_OBSERVATION_TIMESTAMP_NOT_AFTER_VALIDATION",
            "PRICE_OBSERVATION_MARKET_DATE_NOT_AFTER_VALIDATION",
            "CASH_FEASIBILITY", "PURCHASABLE_QUANTITY"}

RuleIf(failed, rule) == IF failed THEN {rule} ELSE {}

InputFailures(packet, quote, at, today) ==
  RuleIf(~SecurityMatchesPacket(quote.security, packet), "SECURITY_IDENTITY_MATCH")
  \cup RuleIf(quote.security.currency # BaseCurrency, "PORTFOLIO_CURRENCY_MATCH")
  \cup RuleIf(quote.at > at, "PRICE_OBSERVATION_TIMESTAMP_NOT_AFTER_VALIDATION")
  \cup RuleIf(quote.day > today, "PRICE_OBSERVATION_MARKET_DATE_NOT_AFTER_VALIDATION")

(* Mutant: a purchase the cash does not cover is cut down to it. *)
NoFundingFailures(recommendation, quote, book) == {}

FundingFailures(recommendation, quote, book) ==
  RuleIf(Required(book, quote.security, recommendation.weight, quote.price)
           > 100 * book.cash, "CASH_FEASIBILITY")
  \cup RuleIf(Purchasable(book, quote.security, recommendation.weight, quote.price)
                = 0, "PURCHASABLE_QUANTITY")

(* TwoLayerRiskEvaluator.evaluate, its safety layer: the rules that fail.  *)
FailedRules(recommendation, packet, quote, at, today, book) ==
  IF recommendation.action = "HOLD" THEN {}
  ELSE IF quote = NoQuote THEN {"PRICE_OBSERVATION_REQUIRED"}
  ELSE RuleIf(quote.security.type \notin SystemSafetyEnvelope.types,
              "PROHIBITED_TRADE_MECHANICS")
       \cup (IF InputFailures(packet, quote, at, today) # {}
             THEN InputFailures(packet, quote, at, today)
             ELSE FundingFailures(recommendation, quote, book))

-----------------------------------------------------------------------------
(* RiskEvaluationSnapshot.from_state: the portfolio before the trade, all  *)
(* of it at the prices of one instant.                                     *)

CurrentValue(book, prices, security) ==
  IF security \in Held(book) THEN book.held[security].quantity * prices[security]
                             ELSE 0

RiskEvaluationSnapshot(book, prices, security, weight) ==
  LET total    == TotalValue(book, prices)
      current  == CurrentValue(book, prices, security)
  IN [total    |-> total,
      current  |-> current,                             \* current_position_weight
      delta    |-> total * weight - 100 * current,      \* proposed_weight_delta
      cash     |-> 100 * book.cash - (total * weight - 100 * current),
      case     |-> IF security \in Held(book) THEN "ADD_TO_POSITION"
                                              ELSE "INITIAL_POSITION"]
=============================================================================
