-------------------------- MODULE FundamentalRecords --------------------------
(***************************************************************************)
(* What Research V2 does with cached fundamentals, as operators: which     *)
(* names a screening gives a research slot (screen_research.py), and which *)
(* endpoints a refresh of one name reuses or fetches                       *)
(* (refresh_fundamentals.py).                                              *)
(*                                                                         *)
(* A record is one endpoint of one name: the fiscal period it reports and  *)
(* the instant of its fetch.  Names are numbered in the order of their     *)
(* tickers, which breaks ties.  Alpha Vantage's adapter refuses a document *)
(* without a parseable period, so every record has one.                    *)
(***************************************************************************)
EXTENDS Naturals, FiniteSets, Sequences, FiniteSetsExt

CONSTANTS
  Names,        \* the universe is 1..Names
  Statements,   \* the statement endpoints
  ReuseAge,     \* OVERVIEW_REUSE_MAX_AGE
  MaxRanked,    \* slots for the best ranked names
  MaxTime,      \* bound on the instants
  MaxPeriod     \* bound on the fiscal periods

ASSUME RecordAssumption ==
  /\ Names \in Nat \ {0}
  /\ Statements # {}
  /\ "OVERVIEW" \notin Statements
  /\ ReuseAge \in Nat
  /\ MaxRanked \in Nat
  /\ MaxTime \in Nat
  /\ MaxPeriod \in Nat

Universe == 1..Names

Endpoints == {"OVERVIEW"} \cup Statements

Instants == 0..MaxTime

Periods == 0..MaxPeriod

Records == [name : Universe, endpoint : Endpoints, period : Periods, at : Instants]

Record(name, endpoint, period, at) ==
  [name |-> name, endpoint |-> endpoint, period |-> period, at |-> at]

Of(records, name, endpoint) ==
  {r \in records : r.name = name /\ r.endpoint = endpoint}

(* The one fetched last; of two fetched in one instant, the newer facts.   *)
Newest(records) ==
  CHOOSE r \in records :
    \A o \in records : o.at < r.at \/ (o.at = r.at /\ o.period <= r.period)

-----------------------------------------------------------------------------
(* Slots *)

(* The name with the least key; the ticker decides between equal keys.     *)
LeastBy(names, key) ==
  CHOOSE a \in names :
    \A b \in names : key[a] < key[b] \/ (key[a] = key[b] /\ a <= b)

(* _DEEP_STATEMENT_ENDPOINTS: EARNINGS is fetched with the statements, but *)
(* does not count as one here.                                             *)
DeepStatements == {"INCOME_STATEMENT", "BALANCE_SHEET", "CASH_FLOW"}

StatementFetches(records, name) ==
  {r.at : r \in {s \in records : s.name = name /\ s.endpoint \in DeepStatements}}

(* Mutant: names never researched come last, not first. *)
NeverIsLast(records, name) ==
  LET fetches == StatementFetches(records, name)
  IN IF fetches = {} THEN 1000 ELSE Max(fetches)

(* Names never researched come first, then the one fetched longest ago.    *)
CoverageKey(records, name) ==
  LET fetches == StatementFetches(records, name)
  IN IF fetches = {} THEN 0 ELSE 1 + Max(fetches)

HasOverview(records, name) == Of(records, name, "OVERVIEW") # {}

(* Names with an overview come first, the oldest reported quarter leading. *)
ReportingKey(records, name) ==
  IF HasOverview(records, name)
  THEN Newest(Of(records, name, "OVERVIEW")).period ELSE MaxPeriod + 1

(* The rank key is computed from price, 52-week high and PE: here, any     *)
(* order.  A ranking is the list of the names that get RANKED slots.       *)
Rankings(eligible, records) ==
  LET usable == {n \in eligible : HasOverview(records, n)}
      slots  == Min({Cardinality(usable), MaxRanked})
  IN {list \in [1..slots -> usable] :
        \A i, j \in 1..slots : list[i] = list[j] => i = j}

(* RANKED, then COVERAGE, then REPORTING_CYCLE, as far as names are left.  *)
SelectedOrder(eligible, records, ranking) ==
  LET unranked == eligible \ {ranking[i] : i \in DOMAIN ranking}
      Slots == [coverage \in unranked |->
        LET rest      == unranked \ {coverage}
            reporting == LeastBy(rest, [n \in rest |-> ReportingKey(records, n)])
        IN IF rest = {} THEN Append(ranking, coverage)
           ELSE Append(Append(ranking, coverage), reporting)]
  IN IF unranked = {} THEN ranking
     ELSE Slots[LeastBy(unranked, [n \in unranked |-> CoverageKey(records, n)])]

-----------------------------------------------------------------------------
(* Refresh *)

HasCompleteStatementSet(name, cached) ==
  \A e \in Statements : Of(cached, name, e) # {}

(* Cached overviews a build as of asOf may still rely on.                  *)
FreshOverviews(name, cached, asOf) ==
  {r \in Of(cached, name, "OVERVIEW") : r.at <= asOf /\ asOf - r.at <= ReuseAge}

Status(label, record) == [reuse |-> label, record |-> record]

(* The provider's answer gives the newest period of each endpoint.         *)
Fetch(name, endpoint, answer, now) ==
  Status("FETCHED_THIS_CYCLE", Record(name, endpoint, answer[endpoint], now))

FetchStatements(name, answer, now) ==
  {Fetch(name, e, answer, now) : e \in Statements}

HydrateFromCachedOverview(name, overview, answer, now) ==
  LET statements == FetchStatements(name, answer, now)
      label == IF \E s \in statements : s.record.period > overview.period
               THEN "STALE" ELSE "REUSED_CURRENT"
  IN {Status(label, overview)} \cup statements

RefreshWithLiveOverview(name, cached, answer, now) ==
  LET OfTheQuarter(e) ==
        {r \in Of(cached, name, e) : r.period = answer["OVERVIEW"]}
      statements ==
        IF \A e \in Statements : OfTheQuarter(e) # {}
        THEN {Status("REUSED_CURRENT", Newest(OfTheQuarter(e))) : e \in Statements}
        ELSE FetchStatements(name, answer, now)
  IN {Fetch(name, "OVERVIEW", answer, now)} \cup statements

(* Mutant: a fresh overview is reused although the statements are there.   *)
RefreshReusingAlways(name, cached, asOf, answer, now) ==
  IF FreshOverviews(name, cached, asOf) # {}
  THEN HydrateFromCachedOverview(name, Newest(FreshOverviews(name, cached, asOf)),
                                 answer, now)
  ELSE RefreshWithLiveOverview(name, cached, answer, now)

Refresh(name, cached, asOf, answer, now) ==
  IF /\ ~HasCompleteStatementSet(name, cached)
     /\ FreshOverviews(name, cached, asOf) # {}
  THEN HydrateFromCachedOverview(name, Newest(FreshOverviews(name, cached, asOf)),
                                 answer, now)
  ELSE RefreshWithLiveOverview(name, cached, answer, now)

=============================================================================
