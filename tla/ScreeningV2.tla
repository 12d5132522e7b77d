----------------------------- MODULE ScreeningV2 ------------------------------
(***************************************************************************)
(* The V2 screen and what the steps after it may use of it: which listed   *)
(* securities pass the history, benchmark, price and liquidity checks,     *)
(* their ranking, the new candidates, the research subjects, and the       *)
(* targets the manager may answer with.                                    *)
(*                                                                         *)
(* A market is what the universe snapshot and the daily-bar provider say:  *)
(* [listed, bars, benchmark].  The bars of a security are [days, sound,    *)
(* price, volume, score]: the dates with a bar; whether each bar is of the *)
(* security and no date comes twice; and the close, dollar volume and      *)
(* score the features formula gives, which are not computed here.          *)
(***************************************************************************)
EXTENDS TargetPlan

CONSTANTS
  Ticker,           \* the order of the symbols: security -> number
  AsOf,             \* the date of the screening
  RequiredDays,     \* required_history_days of the profile
  RelativeDays,     \* relative_strength_window + 1
  MinimumPrice,
  MinimumVolume,
  CandidateLimit

ASSUME ScreeningAssumption ==
  /\ IsFiniteSet(Securities)
  /\ Ticker \in [Securities -> Nat]
  /\ \A a, b \in Securities : Ticker[a] = Ticker[b] => a = b
  /\ {AsOf, RequiredDays, RelativeDays, MinimumPrice, MinimumVolume} \subseteq Nat
  /\ CandidateLimit \in Nat \ {0}

(* _ordered_bars: of the security, one a day, none after the screening.    *)
IsOrdered(bars) == bars.sound /\ \A day \in bars.days : day <= AsOf

(* The checks up to the features; strength is relative to the benchmark on *)
(* the dates both have.                                                    *)
HasHistory(market, s) ==
  LET bars == market.bars[s]
  IN /\ IsOrdered(bars) /\ IsOrdered(market.benchmark)
     /\ Cardinality(bars.days) >= RequiredDays
     /\ Cardinality(bars.days \cap market.benchmark.days) >= RelativeDays

Advanced(market) ==
  {s \in market.listed :
     /\ HasHistory(market, s)
     /\ market.bars[s].price >= MinimumPrice
     /\ market.bars[s].volume >= MinimumVolume}

(* ("score_desc", "ticker_asc") *)
RanksBefore(market, s, other) ==
  \/ market.bars[s].score > market.bars[other].score
  \/ /\ market.bars[s].score = market.bars[other].score
     /\ Ticker[s] < Ticker[other]

(* The rank of every security, from 1; 0 for one that does not advance.    *)
Ranking(market) ==
  LET advanced == Advanced(market)
  IN [s \in Securities |->
        IF s \notin advanced THEN 0
        ELSE 1 + Cardinality({o \in advanced : RanksBefore(market, o, s)})]

(* Mutant: the limit is applied before the holdings are taken out. *)
FirstRanked(rank, holdings) ==
  {s \in Securities \ holdings : rank[s] \in 1..CandidateLimit}

(* The first CandidateLimit of the ranking that are not held.              *)
NewCandidates(rank, holdings) ==
  LET ideas == {s \in Securities \ holdings : rank[s] > 0}
  IN {s \in ideas :
        Cardinality({o \in ideas : rank[o] < rank[s]}) < CandidateLimit}

(* screen_universe_v2 *)
Screen(market, holdings) ==
  LET rank == Ranking(market)
  IN [rank     |-> rank,
      holdings |-> holdings,
      new      |-> NewCandidates(rank, holdings)]

(* The subjects of a research batch about a portfolio.  One that holds     *)
(* nothing and has no candidate is refused.                                *)
NewSubjects(screening, book) == screening.new \ Held(book)

Subjects(screening, book) == NewSubjects(screening, book) \cup Held(book)

(* _build_v2_target: an answer names only researched securities, and so    *)
(* starts a position only in a new candidate, and it names every holding.  *)
(* Any subject may be one whose documents were there to be cited.          *)
IsResearchBounded(allocation, screening, book) ==
  /\ Subjects(screening, book) # {}
  /\ allocation.named \subseteq Subjects(screening, book)
  /\ Held(book) \subseteq allocation.named
=============================================================================
