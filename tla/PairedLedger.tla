----------------------------- MODULE PairedLedger -----------------------------
(***************************************************************************)
(* The two portfolios of a run and their histories: Cash Events, the       *)
(* benchmark's SPY fulfilments, the mark-to-market of a price refresh and  *)
(* the paper execution of an approved BUY.                                 *)
(*                                                                         *)
(* A command reads the run, computes its proposal on that snapshot and     *)
(* saves it later; the threads of the server interleave between the two.   *)
(* The time stamps of commands come from clients and those of quotes from  *)
(* the provider, so they bear no relation to the order of the steps.       *)
(***************************************************************************)
EXTENDS LocalRunStore, PaperBook, PerformanceView

CONSTANTS
  Threads,      \* threads serving commands
  Spy,          \* the benchmark's security; the managed side buys the others
  Buys,         \* approved BUYs: [security, weight (percent), at (decided_at)]
  Feeds,        \* what the provider may return: security -> [at, price]
  InitialCash,  \* INITIAL_FUNDING of both portfolios
  Deposit,      \* amount of a later Cash Event
  DayLength,    \* instants in a market date
  MaxTime       \* bound on time stamps

ASSUME SecurityAssumption ==
  /\ Spy \in Securities
  /\ NoId \notin Threads
  /\ \A b \in Buys : b.security \in Securities \ {Spy} /\ b.weight \in 1..100
  /\ \A feed \in Feeds, s \in Securities :
       feed[s].at \in 1..MaxTime /\ feed[s].price \in Nat \ {0}

ASSUME AmountAssumption ==
  {InitialCash, Deposit, DayLength, MaxTime} \subseteq Nat \ {0}

VARIABLES
  run,          \* the persisted aggregate
  proposals     \* per thread, the aggregate it is about to save

vars == <<run, proposals>>

Times == 0..MaxTime

Day(t) == t \div DayLength

(* A valuation snapshot: "at" is as_of_timestamp, "source" the time of the *)
(* prices it uses, "deposit" the Cash Event it records, if any, and        *)
(* "cycle" the portfolio's decision_cycle_id, here the BUY it last traded. *)
Snapshots == [at : Times, source : Times, book : Books, deposit : {0, Deposit},
              cycle : Buys \cup {NoId}]

Quotes == [security : Securities, at : Times, price : Nat]

Fulfilments == [at : Times, quote : Quotes, book : Books]

Executions == [buy : Buys, at : Times, quote : Quotes]

Statuses == {"FULFILLED", "NO_ACTION_ZERO_CASH",
             "NO_ACTION_INSUFFICIENT_BUYING_POWER", "PENDING_NO_ELIGIBLE_PRICE"}

Runs == [managed : Seq(Snapshots), benchmark : Seq(Snapshots),
         quotes : SUBSET Quotes, funding : SUBSET Times,
         fulfilments : Seq(Fulfilments), executions : SUBSET Executions,
         status : Statuses]

InitialSnapshot ==
  [at |-> 0, source |-> 0, deposit |-> 0, cycle |-> NoId,
   book |-> [cash |-> InitialCash, held |-> [s \in Securities |-> NotHeld]]]

(* Both portfolios funded at time 0, with a cash-only baseline snapshot.   *)
NewRun == [managed |-> <<InitialSnapshot>>, benchmark |-> <<InitialSnapshot>>,
           quotes |-> {}, funding |-> {0}, fulfilments |-> <<>>,
           executions |-> {}, status |-> "PENDING_NO_ELIGIBLE_PRICE"]

NoProposal == [NewRun EXCEPT !.managed = <<>>]

TypeOK == /\ run \in Runs
          /\ proposals \in [Threads -> Runs]

Init == /\ run = NewRun
        /\ proposals = [t \in Threads |-> NoProposal]

Newest(history) == history[Len(history)]

Managed(r)   == Newest(r.managed).book
Benchmark(r) == Newest(r.benchmark).book

-----------------------------------------------------------------------------
(* Quotes and valuations *)

LatestOf(quotes) == CHOOSE q \in quotes : \A other \in quotes : other.at <= q.at

(* Mutant: quotes older than the latest funding are eligible. *)
AnyEarlierSpy(r, before) ==
  {q \in r.quotes : q.security = Spy /\ q.at <= before}

(* _latest_spy_observation chooses among these *)
EligibleSpy(r, before) ==
  {q \in r.quotes : q.security = Spy /\ q.at \in Max(r.funding)..before}

(* from_portfolio: every position has a quote of exactly the source time.  *)
ValuedAt(book, r, source) ==
  \A s \in Held(book) : \E q \in r.quotes : q.security = s /\ q.at = source

(* A history only takes snapshots later than its last one.                 *)
MayAppend(history, at) == at > Newest(history).at

(* A valuation of the newest portfolio of a history, with cash or          *)
(* positions changed, by the cycle it has.                                 *)
Snapshot(at, source, book, deposit, cycle) ==
  [at |-> at, source |-> source, book |-> book, deposit |-> deposit,
   cycle |-> cycle]

Cycle(r) == Newest(r.managed).cycle

Funded(book) == [book EXCEPT !.cash = @ + Deposit]

-----------------------------------------------------------------------------
(* PersistedRunState._validate_benchmark_status *)

IsLatestFulfilment(r) ==
  r.fulfilments # <<>> /\ Newest(r.fulfilments).book = Benchmark(r)

ValidBenchmarkStatus(r) ==
  LET cash     == Benchmark(r).cash
      eligible == EligibleSpy(r, MaxTime)
  IN CASE r.status = "FULFILLED" -> IsLatestFulfilment(r)
       [] r.status = "NO_ACTION_ZERO_CASH" -> cash = 0
       [] r.status = "NO_ACTION_INSUFFICIENT_BUYING_POWER" ->
            /\ cash > 0
            /\ eligible # {}
            /\ Purchasable(Benchmark(r), Spy, 100, LatestOf(eligible).price) = 0
       [] OTHER -> cash > 0 /\ ~IsLatestFulfilment(r)

(* Mutant: the histories are not compared. *)
AcceptsLoss(current, proposed) ==
  /\ RequireImmutableRecords(current.quotes, proposed.quotes)
  /\ RequireImmutableRecords(current.executions, proposed.executions)
  /\ ValidBenchmarkStatus(proposed)

(* The status has no rule of its own: a stale one may come back.           *)
Accepts(current, proposed) ==
  /\ RequireHistoryPrefix(current.managed, proposed.managed)
  /\ RequireHistoryPrefix(current.benchmark, proposed.benchmark)
  /\ RequireImmutableRecords(current.funding, proposed.funding)
  /\ RequireImmutableRecords(current.quotes, proposed.quotes)
  /\ RequireImmutableRecords(current.executions, proposed.executions)
  /\ RequireHistoryPrefix(current.fulfilments, proposed.fulfilments)
  /\ ValidBenchmarkStatus(proposed)

(* A replacement aggregate is validated when it is constructed.            *)
Proposes(t, proposed) ==
  /\ proposals[t] = NoProposal
  /\ ValidBenchmarkStatus(proposed)
  /\ proposals' = [proposals EXCEPT ![t] = proposed]
  /\ UNCHANGED run

-----------------------------------------------------------------------------
(* Commands, from the read to the call of save_transition *)

(* CashEventService.apply: with SPY held, the deposit is valued at the     *)
(* latest eligible SPY quote, which every managed position must share; as  *)
(* long as the benchmark holds nothing, the managed side must not either.  *)
ApplyCashEvent(t) ==
  \E at \in Times, source \in Times :
    /\ MayAppend(run.managed, at) /\ MayAppend(run.benchmark, at)
    /\ IF Held(Benchmark(run)) # {}
       THEN /\ EligibleSpy(run, at) # {}
            /\ source = LatestOf(EligibleSpy(run, at)).at
            /\ ValuedAt(Managed(run), run, source)
       ELSE source = at /\ Held(Managed(run)) = {}
    /\ Proposes(t, [run EXCEPT
         !.managed   = Append(@, Snapshot(at, source, Funded(Managed(run)), Deposit, Cycle(run))),
         !.benchmark = Append(@, Snapshot(at, source, Funded(Benchmark(run)), Deposit, NoId)),
         !.funding   = @ \cup {at},
         !.status    = "PENDING_NO_ELIGIBLE_PRICE"])

RecordNoAction(t, status) ==
  /\ run.status # status
  /\ Proposes(t, [run EXCEPT !.status = status])

(* The fill: all feasible cash into SPY, and a snapshot of both sides.     *)
Fulfils(t, quote, at) ==
  LET book == Bought(Benchmark(run), Spy, 100, quote.price)
  IN /\ ValuedAt(Managed(run), run, quote.at)
     /\ MayAppend(run.managed, at) /\ MayAppend(run.benchmark, at)
     /\ Proposes(t, [run EXCEPT
          !.managed     = Append(@, Snapshot(at, quote.at, Managed(run), 0, Cycle(run))),
          !.benchmark   = Append(@, Snapshot(at, quote.at, book, 0, NoId)),
          !.fulfilments = Append(@, [at |-> at, quote |-> quote, book |-> book]),
          !.status      = "FULFILLED"])

(* BenchmarkFulfillmentService.fulfill *)
FulfillBenchmark(t) ==
  \E at \in Times :
    LET book     == Benchmark(run)
        eligible == EligibleSpy(run, at)
    IN IF book.cash = 0 THEN RecordNoAction(t, "NO_ACTION_ZERO_CASH")
       ELSE IF eligible = {} THEN RecordNoAction(t, "PENDING_NO_ELIGIBLE_PRICE")
       ELSE IF Purchasable(book, Spy, 100, LatestOf(eligible).price) = 0
            THEN RecordNoAction(t, "NO_ACTION_INSUFFICIENT_BUYING_POWER")
       ELSE Fulfils(t, LatestOf(eligible), at)

(* MarkToMarketService.propose: one snapshot of both sides at the latest   *)
(* quote among the held securities, unless a history is already past it.   *)
HeldByEither(r) == Held(Managed(r)) \cup Held(Benchmark(r))

(* Mutant: the benchmark's snapshot shows the time of its own quote. *)
MarkedAtOwnQuote(r, feed) ==
  LET at == Max({feed[s].at : s \in HeldByEither(r)})
  IN IF MayAppend(r.managed, at) /\ MayAppend(r.benchmark, at)
     THEN [r EXCEPT
             !.managed   = Append(@, Snapshot(at, at, Managed(r), 0, Cycle(r))),
             !.benchmark = Append(@, Snapshot(at, feed[Spy].at, Benchmark(r), 0, NoId))]
     ELSE r

Marked(r, feed) ==
  LET at == Max({feed[s].at : s \in HeldByEither(r)})
  IN IF MayAppend(r.managed, at) /\ MayAppend(r.benchmark, at)
     THEN [r EXCEPT
             !.managed   = Append(@, Snapshot(at, at, Managed(r), 0, Cycle(r))),
             !.benchmark = Append(@, Snapshot(at, at, Benchmark(r), 0, NoId))]
     ELSE r

QuotesOf(feed) == {[security |-> s, at |-> feed[s].at, price |-> feed[s].price] :
                     s \in Securities}

Rewrites(r, feed) ==
  \E q \in QuotesOf(feed), old \in r.quotes :
    q.security = old.security /\ q.at = old.at /\ q.price # old.price

MarksToMarket(r, feed) ==
  /\ r.status = "FULFILLED"
  /\ \E q \in QuotesOf(feed) \ r.quotes : q.security \in HeldByEither(r)

Refreshed(r, feed) ==
  LET with == [r EXCEPT !.quotes = @ \cup QuotesOf(feed)]
  IN IF MarksToMarket(r, feed) THEN Marked(with, feed) ELSE with

(* Marking needs quotes of one market date for the held securities.        *)
OneMarketDate(r, feed) ==
  \A a, b \in HeldByEither(r) : Day(feed[a].at) = Day(feed[b].at)

(* _apply_observations; the operation around it is in PriceRefresh.        *)
RefreshPrices(t) ==
  \E feed \in Feeds :
    /\ ~Rewrites(run, feed)
    /\ MarksToMarket(run, feed) => OneMarketDate(run, feed)
    /\ Proposes(t, Refreshed(run, feed))

(* ManagedPaperExecutionService.execute *)
ExecutePaperTrade(t) ==
  \E buy \in Buys, at \in Times :
    LET eligible == {q \in run.quotes : /\ q.security = buy.security
                                        /\ q.at \in buy.at..at}
        quote == LatestOf(eligible)
        book  == Bought(Managed(run), buy.security, buy.weight, quote.price)
    IN /\ \A e \in run.executions : e.buy # buy
       /\ eligible # {}
       /\ FullyFeasible(Managed(run), buy.security, buy.weight, quote.price)
       /\ ValuedAt(book, run, quote.at)
       /\ MayAppend(run.managed, at)
       /\ Proposes(t, [run EXCEPT
            !.managed    = Append(@, Snapshot(at, quote.at, book, 0, buy)),
            !.executions = @ \cup {[buy |-> buy, at |-> at, quote |-> quote]}])

(* Any command that adds an artifact of another kind: it saves the run it  *)
(* read, status included.                                                  *)
OtherCommand(t) == Proposes(t, run)

(* save_transition commits the proposal or raises, for the rules above or  *)
(* for a failure of the database; nobody retries.                          *)
SaveTransition(t) ==
  /\ proposals[t] # NoProposal
  /\ \/ Accepts(run, proposals[t]) /\ run' = proposals[t]
     \/ UNCHANGED run
  /\ proposals' = [proposals EXCEPT ![t] = NoProposal]

Next == \E t \in Threads :
          \/ ApplyCashEvent(t) \/ FulfillBenchmark(t) \/ RefreshPrices(t)
          \/ ExecutePaperTrade(t) \/ OtherCommand(t) \/ SaveTransition(t)

Spec == Init /\ [][Next]_vars

-----------------------------------------------------------------------------
(* Properties *)

Sides == {"managed", "benchmark"}

Invested(book) == SumFunction([s \in Securities |-> book.held[s].cost])

Accounts == INSTANCE PairedAccounts
              WITH cash <- [s \in Sides |-> Newest(run[s]).book.cash],
                   invested <- [s \in Sides |-> Invested(Newest(run[s]).book)]

(***************************************************************************)
(* docs/architecture.md:76-78 and adr-001-cash-event-model.md: both        *)
(* portfolios receive the same Cash Events and each deploys its own cash.  *)
(* No interleaving of stale saves funds one side alone, loses or repeats   *)
(* a deposit, undoes a purchase or spends more than there is.              *)
(***************************************************************************)
AccountsAreImplemented == Accounts!Spec

(***************************************************************************)
(* managed_execution.py:131-133, performance.py:372-374: an execution      *)
(* leaves the histories unpaired, and a later pair makes them comparable   *)
(* again.  Whenever both end at the same time, PerformanceComparison       *)
(* accepts them: every benchmark snapshot has its managed counterpart      *)
(* with the same price time and Cash Event, and no deposit is without      *)
(* one.                                                                    *)
(***************************************************************************)
SynchronizedTailsAreComparable ==
  LastAt(run.managed) = LastAt(run.benchmark) =>
    Comparison(run.managed, run.benchmark) = "COMPARABLE"

(***************************************************************************)
(* Every screen of the program is one read of the run, and an error in any *)
(* part of it is an error of the whole request.  In every reachable run    *)
(* the read state can be loaded, every point of the chart can be computed, *)
(* and once the histories are synchronized the cycle that traded last      *)
(* shows the performance since its execution.                              *)
(***************************************************************************)
DashboardCanBeShown ==
  /\ CanBeLoaded(run.managed, run.benchmark)
  /\ ChartCanBeDrawn(run.managed, run.benchmark)
  /\ \A e \in run.executions :
       /\ e.buy = Cycle(run)
       /\ Comparison(run.managed, run.benchmark) = "COMPARABLE"
       => \E pair \in PerformanceOf(run.managed, run.benchmark, e.buy, e.at) :
            PrefixComparison(run.managed, run.benchmark, pair) = "COMPARABLE"

(***************************************************************************)
(* No fill uses a price from before the money or the decision it serves:   *)
(* a fulfilment's quote is not older than any Cash Event it spends, an     *)
(* execution's quote lies between the approval and the execution.          *)
(***************************************************************************)
NoFillFromThePast ==
  /\ \A i \in 1..Len(run.fulfilments) :
       LET fill == run.fulfilments[i]
       IN /\ fill.quote.at <= fill.at
          /\ \A f \in run.funding : f <= fill.quote.at \/ f > fill.at
  /\ \A e \in run.executions : e.buy.at <= e.quote.at /\ e.quote.at <= e.at

(***************************************************************************)
(* adr-006-paper-quote-benchmark-fulfillment.md:10-11 says the policy      *)
(* "deterministically invests all feasible benchmark cash into SPY with    *)
(* an explicitly persisted PriceObservation".  For that the observation    *)
(* must be one the run can take: a provider answer that rewrites no quote  *)
(* leads to a valid run.                                                   *)
(***************************************************************************)
MarketPricesCanBePersisted ==
  \A feed \in Feeds :
    ~Rewrites(run, feed) => ValidBenchmarkStatus(Refreshed(run, feed))
=============================================================================
