---------------------------- MODULE PerformanceView ----------------------------
(***************************************************************************)
(* What the API and the dashboard show of the two valuation histories: the *)
(* comparison of the managed portfolio with the benchmark, the chart, and  *)
(* the performance attached to an executed decision.  A request fails as a *)
(* whole where any of these raises.                                        *)
(*                                                                         *)
(* A history is a sequence of snapshots in the order of their times "at".  *)
(* A snapshot has the time "source" of its prices, the Cash Event          *)
(* "deposit" it records (0 for none), and the "cycle" that last traded the *)
(* portfolio.                                                              *)
(***************************************************************************)
EXTENDS Naturals, Sequences, FiniteSetsExt

LastAt(history) == history[Len(history)].at

Prefix(history, n) == SubSeq(history, 1, n)

(* _validate_paired_snapshots *)
Paired(a, b) == a.at = b.at /\ a.source = b.source /\ a.deposit = b.deposit

CashEvents(history) ==
  {[at |-> history[i].at, amount |-> history[i].deposit] :
     i \in {n \in DOMAIN history : history[n].deposit > 0}}

(* The one managed snapshot of the same time, as an index.                 *)
CounterpartsOf(managed, snapshot) ==
  {i \in DOMAIN managed : managed[i].at = snapshot.at}

Unmatched(managed, benchmark) ==
  {j \in DOMAIN benchmark : CounterpartsOf(managed, benchmark[j]) = {}}

Mismatched(managed, benchmark) ==
  {j \in DOMAIN benchmark : \E i \in CounterpartsOf(managed, benchmark[j]) :
                              ~Paired(managed[i], benchmark[j])}

(* Mutant: snapshots are compared by position. *)
ComparisonByPosition(managed, benchmark) ==
  IF /\ Len(managed) = Len(benchmark)
     /\ \A i \in DOMAIN managed : Paired(managed[i], benchmark[i])
  THEN "COMPARABLE" ELSE "MISMATCH"

(***************************************************************************)
(* PerformanceComparison: that the two histories can be compared, or which *)
(* error their construction raises.  "UNSYNCHRONIZED" is the one the read  *)
(* side expects, "must have equal snapshot counts"; executions lead to it. *)
(***************************************************************************)
Comparison(managed, benchmark) ==
  LET unmatched  == Unmatched(managed, benchmark)
      mismatched == Mismatched(managed, benchmark)
  IN IF Len(managed) = Len(benchmark)
     THEN IF \A i \in DOMAIN managed : Paired(managed[i], benchmark[i])
          THEN "COMPARABLE" ELSE "MISMATCH"
     ELSE IF \/ LastAt(managed) # LastAt(benchmark)
             \/ unmatched # {} /\ \A j \in mismatched : Min(unmatched) < j
     THEN "UNSYNCHRONIZED"
     ELSE IF mismatched = {} /\ CashEvents(managed) = CashEvents(benchmark)
     THEN "COMPARABLE" ELSE "MISMATCH"

(* SQLiteMvpReadState.snapshot and build_dashboard_view leave the          *)
(* comparison out only for that error.                                     *)
CanBeLoaded(managed, benchmark) == Comparison(managed, benchmark) # "MISMATCH"

(* _synchronized_snapshot_pairs                                            *)
SynchronizedPairs(managed, benchmark) ==
  {p \in (DOMAIN managed) \X (DOMAIN benchmark) :
     managed[p[1]].at = benchmark[p[2]].at}

(* _history_prefix_comparison *)
PrefixComparison(managed, benchmark, pair) ==
  Comparison(Prefix(managed, pair[1]), Prefix(benchmark, pair[2]))

(* Each point of the chart is the comparison of the histories up to there. *)
ChartCanBeDrawn(managed, benchmark) ==
  Comparison(managed, benchmark) = "COMPARABLE" =>
    \A pair \in SynchronizedPairs(managed, benchmark) :
      /\ PrefixComparison(managed, benchmark, pair) = "COMPARABLE"
      /\ \A other \in SynchronizedPairs(managed, benchmark) :
           other[1] = pair[1] => other = pair

(* _snapshot_index_for_decision_cycle; a portfolio keeps its cycle until   *)
(* the next trade.                                                         *)
SnapshotsOf(managed, cycle, executedAt) ==
  {i \in DOMAIN managed : managed[i].cycle = cycle /\ managed[i].at >= executedAt}

(* _synchronized_snapshot_pair_for_decision_cycle: the first such          *)
(* snapshot that is synchronized, if there is one.                         *)
PerformanceOf(managed, benchmark, cycle, executedAt) ==
  LET pairs == {p \in SynchronizedPairs(managed, benchmark) :
                  p[1] \in SnapshotsOf(managed, cycle, executedAt)}
  IN {p \in pairs : \A other \in pairs : p[1] <= other[1]}
=============================================================================
