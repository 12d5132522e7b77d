--------------------------- MODULE ResearchPackets ---------------------------
(***************************************************************************)
(* What a research packet shows of the refreshed fundamentals of a name:   *)
(* the coverage of each endpoint, and the metrics derived from the facts   *)
(* (assemble_research_packets.py, fundamental_inputs.py,                   *)
(* fundamental_metrics.py), as the evidence assessment of the policy gets  *)
(* them.                                                                   *)
(*                                                                         *)
(* Of a fact only the sign matters, or that the provider left it out; four *)
(* quarters are one fact, the sign of their sum, missing with any of them. *)
(* A metric's value is whether there is one.  "uses" are the inputs the    *)
(* value is computed from; the packet itself only has "inputs", the keys   *)
(* the metric is attributed to.                                            *)
(***************************************************************************)
EXTENDS FundamentalRecords

CONSTANT Reported   \* name -> input -> what the provider says of it

Policy == INSTANCE ValuePolicy WITH Texts <- {}

Signs == {"POSITIVE", "NOT_POSITIVE", "MISSING"}

(* fundamental_metric_inputs_from_records: the facts of each endpoint.     *)
InputsOf(endpoint) ==
  CASE endpoint = "BALANCE_SHEET" ->
         {"cash", "total_debt", "current_assets", "current_liabilities",
          "latest_shares", "shares_4q_ago", "statement_shares"}
    [] endpoint = "INCOME_STATEMENT" ->
         {"gross_profit", "operating_income", "net_income", "revenue",
          "quarterly_revenue", "quarterly_net_income"}
    [] endpoint = "CASH_FLOW" ->
         {"operating_cash_flow", "capex", "quarterly_operating_cash_flow",
          "quarterly_capex"}
    [] endpoint = "OVERVIEW" -> {"overview_shares"}
    [] OTHER -> {}

Inputs == UNION {InputsOf(e) : e \in Endpoints}

ASSUME ReportAssumption ==
  /\ Statements = {"INCOME_STATEMENT", "BALANCE_SHEET", "CASH_FLOW", "EARNINGS"}
  /\ Reported \in [Universe -> [Inputs -> Signs]]
  /\ \A n \in Universe :
       Reported[n]["statement_shares"] = Reported[n]["latest_shares"]

(* A price observation is positive.                                        *)
MetricInputs(name, statuses) ==
  [input \in Inputs \cup {"price"} |->
     IF input = "price" THEN "POSITIVE"
     ELSE IF \E s \in statuses : input \in InputsOf(s.record.endpoint)
     THEN Reported[name][input] ELSE "MISSING"]

-----------------------------------------------------------------------------
(* Freshness *)

CoverageFreshness(status) == IF status.reuse = "STALE" THEN "STALE" ELSE "FRESH"

CoverageReliability(endpoint) ==
  IF endpoint = "OVERVIEW" THEN "PROVIDER_COMPUTED" ELSE "PRIMARY_STATEMENT"

(* coverage_from_statuses; a refresh has one status for each endpoint.     *)
Coverage(statuses) ==
  [e \in {s.record.endpoint : s \in statuses} |->
     LET status == CHOOSE s \in statuses : s.record.endpoint = e
     IN [reuse |-> status.reuse, freshness |-> CoverageFreshness(status),
         reliability |-> CoverageReliability(e)]]

(* _input_freshness: the inputs that are stale.  The price is fresh.       *)
StaleInputs(statuses) ==
  UNION {InputsOf(s.record.endpoint) :
           s \in {t \in statuses : CoverageFreshness(t) = "STALE"}}

(* _inherited_freshness: the worst of the keys'.                           *)
InheritedFreshness(keys, stale) == IF keys \cap stale # {} THEN "STALE" ELSE "FRESH"

-----------------------------------------------------------------------------
(* derive_fundamental_metrics *)

Shares(inputs) ==
  IF inputs["statement_shares"] # "MISSING" THEN "statement_shares"
                                            ELSE "overview_shares"

(* Mutant: the share count is always attributed to the statements. *)
StatementShareKeys(inputs) == {"statement_shares"}

ShareKeys(inputs) ==
  IF inputs["statement_shares"] # "MISSING" THEN {"statement_shares"}
                                            ELSE {"overview_shares"}

Available(inputs, used) ==
  IF \A input \in used : inputs[input] # "MISSING" THEN "PRESENT" ELSE "NOT_AVAILABLE"

(* _margin, _fcf_yield: none with a denominator that is not positive.      *)
RatioTo(inputs, used, denominator) ==
  IF inputs[denominator] = "NOT_POSITIVE" THEN "NOT_AVAILABLE"
                                          ELSE Available(inputs, used)

CurrentRatio(inputs) ==
  CASE inputs["current_liabilities"] = "MISSING"      -> "NOT_AVAILABLE"
    [] inputs["current_liabilities"] = "NOT_POSITIVE" -> "NOT_APPLICABLE"
    [] OTHER -> Available(inputs, {"current_assets"})

(* _cash_conversion, of the last four quarters                             *)
CashConversion(inputs, used) ==
  IF Available(inputs, used) = "PRESENT"
     /\ inputs["quarterly_net_income"] = "NOT_POSITIVE"
  THEN "NOT_APPLICABLE" ELSE Available(inputs, used)

(* _present, _missing; a value that is missing is a metric all the same.   *)
Metric(id, keys, used, value, stale) ==
  [id |-> id, formula |-> id, inputs |-> keys,
   uses |-> IF value = "PRESENT" THEN used ELSE {},
   value |-> value, reliability |-> "DERIVED_DETERMINISTIC",
   freshness |-> InheritedFreshness(keys, stale)]

(* _difference, _free_cash_flow, _ttm, _ttm_free_cash_flow,                *)
(* _share_count_change: a value when all is there, four valid quarters     *)
(* included.                                                               *)
Plain(id, inputs, used, stale) ==
  Metric(id, used, used, Available(inputs, used), stale)

Margin(id, inputs, used, stale) ==
  Metric(id, used, used, RatioTo(inputs, used, "revenue"), stale)

CapInputs(inputs) == {"price", Shares(inputs)}

MarketCap(inputs, stale) ==
  Metric("market_cap", {"price"} \cup ShareKeys(inputs), CapInputs(inputs),
         Available(inputs, CapInputs(inputs)), stale)

(* What follows from the market capitalisation is attributed to both share *)
(* counts, whichever it used.                                              *)
EitherShare == {"price", "statement_shares", "overview_shares"}

EnterpriseValue(inputs, stale) ==
  LET debt == {"total_debt", "cash"}
      used == CapInputs(inputs) \cup debt
  IN Metric("enterprise_value", EitherShare \cup debt, used,
            Available(inputs, used), stale)

FreeCashFlowYield(inputs, stale) ==
  LET flows == {"quarterly_operating_cash_flow", "quarterly_capex"}
      used  == CapInputs(inputs) \cup flows
  IN Metric("fcf_yield", EitherShare \cup flows, used,
            RatioTo(inputs, used, Shares(inputs)), stale)

DerivedMetrics(inputs, stale) ==
  LET plain ==
        [net_debt           |-> {"total_debt", "cash"},
         fcf                |-> {"operating_cash_flow", "capex"},
         ttm_ocf            |-> {"quarterly_operating_cash_flow"},
         ttm_capex          |-> {"quarterly_capex"},
         ttm_fcf            |-> {"quarterly_operating_cash_flow", "quarterly_capex"},
         ttm_net_income     |-> {"quarterly_net_income"},
         ttm_revenue        |-> {"quarterly_revenue"},
         share_count_change |-> {"latest_shares", "shares_4q_ago"}]
      margins == [gross_margin     |-> {"gross_profit", "revenue"},
                  operating_margin |-> {"operating_income", "revenue"},
                  net_margin       |-> {"net_income", "revenue"}]
      current == {"current_assets", "current_liabilities"}
      quarters == {"quarterly_operating_cash_flow", "quarterly_net_income"}
  IN {Plain(id, inputs, plain[id], stale) : id \in DOMAIN plain}
     \cup {Margin(id, inputs, margins[id], stale) : id \in DOMAIN margins}
     \cup {Metric("current_ratio", current, current, CurrentRatio(inputs), stale),
           Metric("cash_conversion", quarters, quarters,
                  CashConversion(inputs, quarters), stale),
           MarketCap(inputs, stale), EnterpriseValue(inputs, stale),
           FreeCashFlowYield(inputs, stale)}

-----------------------------------------------------------------------------
SecurityOf(name) ==
  [ticker |-> name, type |-> "EQUITY", exchange |-> "US", currency |-> "USD"]

(* assemble_research_packet *)
AssembledPacket(name, statuses) ==
  [ticker |-> name, type |-> SecurityOf(name).type,
   exchange |-> SecurityOf(name).exchange, currency |-> SecurityOf(name).currency,
   coverage |-> Coverage(statuses),
   metrics |-> DerivedMetrics(MetricInputs(name, statuses), StaleInputs(statuses))]
=============================================================================
