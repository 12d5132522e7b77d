-------------------------- MODULE MCResearchPipeline --------------------------
(* Bounds for ResearchPipeline. *)
EXTENDS ResearchPipeline, TLC

CONSTANTS b1, p1

MCStatements == {"INCOME_STATEMENT", "BALANCE_SHEET", "CASH_FLOW", "EARNINGS"}

MCUniverseOrder == [i \in Universe |-> Names + 1 - i]

MCPriced == Universe

(* The quarter changes once for each endpoint, at the given instant.       *)
Published(at) == [t \in Instants |-> [n \in Universe |-> [e \in Endpoints |->
                    IF t >= at[n][e] THEN 2 ELSE 1]]]

(* Name 1 has its earnings before its overview and name 2 its overview     *)
(* before its cash flow; of the others nothing changes.                    *)
Never == [n \in Universe |-> [e \in Endpoints |-> MaxTime + 1]]

MCCalendars ==
  {Published([Never EXCEPT ![1]["EARNINGS"] = 1,
                           ![2]["OVERVIEW"] = 1, ![2]["EARNINGS"] = 1])}

(* Name 1 reports no shares in its statements; name 2 lacks a quarter of     *)
(* its cash flow and has sold nothing; name 3 lost money, has no liabilities *)
(* and no shares at all; of the last one everything is there.                *)
MCReported ==
  LET Whole == [input \in Inputs |-> "POSITIVE"]
      NoStatementShares == [Whole EXCEPT !["statement_shares"] = "MISSING",
                                         !["latest_shares"] = "MISSING"]
  IN [n \in Universe |->
        CASE n = 1 -> NoStatementShares
          [] n = 2 -> [Whole EXCEPT !["quarterly_capex"] = "MISSING",
                                    !["revenue"] = "NOT_POSITIVE"]
          [] n = 3 -> [NoStatementShares EXCEPT
                         !["overview_shares"] = "MISSING",
                         !["quarterly_net_income"] = "NOT_POSITIVE",
                         !["current_liabilities"] = "NOT_POSITIVE"]
          [] OTHER -> Whole]
=============================================================================
