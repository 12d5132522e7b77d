------------------------------ MODULE ValuePolicy ------------------------------
(***************************************************************************)
(* The policy of the Value manager: the investment constitution, a file of *)
(* the repository read on every use; the advisory Manager Risk             *)
(* Constitution built for exactly that text; the evidence bands it         *)
(* defines; and the findings it has about a recommendation.  Findings      *)
(* inform the reviewer and the human, and never gate a trade.              *)
(*                                                                         *)
(* A content hash stands for its content: two artifacts are the same when  *)
(* their texts are, whatever their loading_source.                         *)
(***************************************************************************)
EXTENDS Naturals, FiniteSets

CONSTANT Texts   \* contents docs/value-manager-constitution-v2.md may have

(* load_value_manager_constitution_v2 *)
ValueManagerConstitution(text) ==
  [version |-> "value-v2.0.0", manager |-> "VALUE", text |-> text]

(* InvestmentConstitutionReference.from_constitution *)
InvestmentConstitution(constitution) ==
  [version |-> constitution.version, manager |-> constitution.manager,
   content |-> constitution.text]

(* load_value_manager_risk_constitution_v2: guidance, no limits.           *)
ManagerRiskConstitution(investment) ==
  [version    |-> "value-risk-v2.0.0",
   manager    |-> "VALUE",
   compatible |-> {[version |-> investment.version, content |-> investment.content]},
   starter    |-> [min |-> 5, max |-> 10],
   limits     |-> {}]

CompatibleWith(risk, investment) ==
  /\ risk.manager = investment.manager
  /\ [version |-> investment.version, content |-> investment.content]
       \in risk.compatible

(* Only the first version of the risk constitution had hard limits.        *)
IsAdvisory(risk) == risk.version # "value-risk-v1.0.0" /\ risk.limits = {}

(* load_system_safety_envelope_v1, what of it the evaluator reads          *)
SystemSafetyEnvelope ==
  [version |-> "system-safety-v1.0.0", types |-> {"EQUITY", "ETF"}]

(* load_active_value_policy, while the file holds this text                *)
ActivePolicy(text) ==
  LET investment == InvestmentConstitution(ValueManagerConstitution(text))
  IN [investment |-> investment,
      envelope   |-> SystemSafetyEnvelope,
      risk       |-> ManagerRiskConstitution(investment)]

(* The lineage an execution check compares: the constitutions, and not the *)
(* envelope.                                                               *)
SameLineage(journaled, active) ==
  /\ ActivePolicy(journaled).investment = ActivePolicy(active).investment
  /\ ActivePolicy(journaled).risk = ActivePolicy(active).risk

-----------------------------------------------------------------------------
(* Evidence coverage.  A packet has "coverage", a record [reuse, freshness,*)
(* reliability] for each endpoint it has, and a set "metrics".             *)

Endpoints == {"OVERVIEW", "INCOME_STATEMENT", "BALANCE_SHEET", "CASH_FLOW",
              "EARNINGS"}

BaselineMetrics ==
  {"net_debt", "current_ratio", "gross_margin", "operating_margin",
   "net_margin", "fcf", "ttm_ocf", "ttm_capex", "ttm_fcf", "ttm_net_income",
   "ttm_revenue", "cash_conversion", "share_count_change", "market_cap",
   "enterprise_value", "fcf_yield"}

(* EvidenceBandDefinition; the enhanced band is reserved.                  *)
EvidenceBands ==
  {[band |-> "BASELINE_RESEARCH_V2", reachable |-> TRUE,
    endpoints |-> Endpoints, metrics |-> BaselineMetrics],
   [band |-> "ENHANCED_RESEARCH_UNDEFINED", reachable |-> FALSE,
    endpoints |-> {}, metrics |-> {}]}

RequiredReliability(endpoint) ==
  IF endpoint = "OVERVIEW" THEN "PROVIDER_COMPUTED" ELSE "PRIMARY_STATEMENT"

Covered(packet, endpoint) ==
  /\ endpoint \in DOMAIN packet.coverage
  /\ packet.coverage[endpoint].reuse \in {"FETCHED_THIS_CYCLE", "REUSED_CURRENT"}
  /\ packet.coverage[endpoint].freshness = "FRESH"
  /\ packet.coverage[endpoint].reliability = RequiredReliability(endpoint)

SoundMetric(metric) ==
  /\ metric.reliability = "DERIVED_DETERMINISTIC"
  /\ metric.freshness = "FRESH"
  /\ metric.formula = metric.id
  /\ metric.inputs # {}

IdentityMatches(packet, security) ==
  \A field \in {"ticker", "type", "exchange", "currency"} :
    packet[field] = security[field]

(* _assess_evidence_bands *)
Eligible(definition, packet, security) ==
  /\ definition.reachable
  /\ IdentityMatches(packet, security)
  /\ \A endpoint \in definition.endpoints : Covered(packet, endpoint)
  /\ {metric.id : metric \in packet.metrics} = definition.metrics
  /\ \A metric \in packet.metrics : SoundMetric(metric)

BaselineQualified(packet, security) ==
  \E definition \in EvidenceBands :
    /\ definition.band = "BASELINE_RESEARCH_V2"
    /\ Eligible(definition, packet, security)

-----------------------------------------------------------------------------
(* ManagerConstitutionAssessor *)

Findings == [id : {"HOLD_NO_ALLOCATION_ASSESSMENT", "CONSTITUTION_COMPATIBILITY",
                   "POSITION_CHANGE_CONTEXT", "EVIDENCE_COVERAGE_PROFILE",
                   "NORMAL_STARTER_GUIDANCE_DEVIATION", "REVIEWER_FOCUS_AREAS"},
             severity : {"INFO", "ATTENTION", "MATERIAL"}]

Finding(id, severity) == [id |-> id, severity |-> severity]

MaterialIf(condition) == IF condition THEN "MATERIAL" ELSE "INFO"

(* What assess refuses to assess with. *)
MayAssess(policy, constitution) ==
  /\ CompatibleWith(policy.risk, InvestmentConstitution(constitution))
  /\ IsAdvisory(policy.risk)

(* assess *)
Assess(recommendation, packet, security, text) ==
  IF recommendation.action = "HOLD"
  THEN {Finding("HOLD_NO_ALLOCATION_ASSESSMENT", "INFO")}
  ELSE {Finding("CONSTITUTION_COMPATIBILITY", "INFO"),
        Finding("POSITION_CHANGE_CONTEXT", "INFO"),
        Finding("EVIDENCE_COVERAGE_PROFILE",
                MaterialIf(~BaselineQualified(packet, security))),
        Finding("NORMAL_STARTER_GUIDANCE_DEVIATION",
                MaterialIf(recommendation.weight
                             > ActivePolicy(text).risk.starter.max)),
        Finding("REVIEWER_FOCUS_AREAS", "ATTENTION")}

RequiresStrongerJustification(findings) ==
  \E finding \in findings : finding.severity = "MATERIAL"
=============================================================================
