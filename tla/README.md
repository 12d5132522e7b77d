# Verification of agentic-portfolio-lab

TLA+ models of the program in `src/`, model-checked with TLC and, for all seven
of its concurrent parts, proved with TLAPS as far as the prover reaches.  Paths below are relative to the repository;
`application/x.py` stands for `src/agentic_portfolio_lab/application/x.py`.

The program is a paper-trading laboratory.  A language model (the Value
Manager) proposes, deterministic checks (System Safety) validate, a second
model comments, a human approves or rejects, and a simulator executes.  A
benchmark portfolio gets the same deposits and buys SPY.  Everything of a run
is one aggregate, `PersistedRunState`, in one SQLite row.

## 1. Inventory

### 1.1 Parts, state, operations

| Part | State | Operations | What makes it correct |
|---|---|---|---|
| Run store (`infrastructure/sqlite_local_state.py`, `application/local_state.py`, `local_state_codec.py`) | the aggregate, an index of quotes and identifiers | `initialize_run`, `open_run`, `save_transition` | a saved aggregate is valid and contains everything saved before it |
| Price refresh (`application/refresh_prices.py`, `domain/price_refresh.py`) | the latest operation, in the aggregate | begin, fetch, complete, fail, recover | one refresh at a time; all or nothing; a crash is recoverable; a terminal operation stays terminal |
| V1 decision cycle (`application/decision_commands.py`, `domain/decision_cycle.py`, `journal.py`, `approval.py`) | research batches, journals, reviews, approvals, history | build research, run the manager, review, decide, revise | one journal, outcome and execution per cycle; an answer is about the latest research; lineage is a chain |
| Managed execution (`application/managed_execution.py`, `domain/execution_check.py`, `simulated_execution.py`, `trades.py`) | checks, executions, trades, the managed portfolio | execute | only an approved BUY that is safe on the portfolio of the moment, once, at an eligible price; what is executed can be audited |
| Paired ledger (`application/wave2_commands.py`, `mark_to_market.py`, `domain/performance.py`, `valuation.py`, `cash_events.py`, `benchmark_fulfillment.py`, `portfolio_service.py`, `portfolio.py`) | two portfolios, two histories, cash events, fulfilments, quotes | deposit, fulfil, mark to market, compare | both sides get the same deposits; no money appears; histories can be compared; no fill in the past |
| V2 weekly cycle (`application/v2_weekly_cycle.py`, `v2_preparation.py`, `v2_prices.py`, `domain/target_execution_v2.py`, `portfolio_decisions_v2.py`) | V2 cycles in the aggregate, an audit table (`infrastructure/v2_batch_store.py`) | prepare, approve, reject, execute | screened, researched and executed for one portfolio; one outcome, one execution; the target is reached; readiness tells the truth |
| Deep research V3 (`application/build_research_v3.py`, `infrastructure/v3_batch_store.py`, `domain/research_v3.py`) | versions of company research, slots per date, batches | build | the day's slots are never overspent; what a batch shows is cached and fresh |
| Research V2 (`application/build_research.py`, `screen_research.py`, `refresh_fundamentals.py`, `fundamental_*.py`, `assemble_research_packets.py`, `bootstrap_overview.py`) | fundamental records, screening runs and batches in the aggregate | screen, refresh, assemble, bootstrap | requests answered are kept; a batch refers to what is on record and does not step back; every name is researched |
| Risk validation and policy (`domain/risk_validation.py`, `policy.py`, `constitution.py`, `application/active_policy.py`) | the constitution file | load, assess, validate | a trade is authorised only by the rules on the portfolio, the quote and the policy of the moment; advice gates nothing |
| Recommendations and managers (`domain/recommendations.py`, `value_manager*.py`, `openai_value_manager.py`) | none | recommend | an answer outside the schema is refused |
| Reviewer, V2 advisory (`domain/reviewer.py`, `openai_*reviewer.py`, `*v2_advisory.py`) | reviews in the aggregate | review | advice gates nothing |
| Screening, universe (`domain/screening*.py`, `universe*.py`, `application/screen_universe_v2.py`, `refresh_universe.py`) | snapshot files, screening artifacts | rank, refresh | deterministic ranking; the slate has every holding and the best of the rest |
| Providers (`infrastructure/alpaca.py`, `alpha_vantage.py`, `twelve_data.py`, `application/market_configuration.py`) | none | fetch | an answer or an error |
| HTTP API (`api/*.py`) | none | one route per command, read-only queries | what is shown as possible is possible; the decision steps of the checklist move forward |
| Dashboard and frontend (`dashboard*.py`, `frontend/app.js`) | none | compare, render | a valid run can be shown |

### 1.2 How the parts interact

Routes are synchronous functions, so FastAPI serves them from a thread pool:
commands run side by side.  Each command opens the run (one read), computes a
replacement of the whole aggregate - possibly for minutes, calling a provider
or a model - and calls `save_transition`.  That opens an immediate
transaction, reads the stored aggregate again, and refuses the replacement if
it drops or changes what the rules of `_validate_transition` protect.  There
is no version number and no retry: the rules *are* the concurrency control,
and what they do not mention is last-writer-wins.  The price refresh spans two
transactions, with its own IN_PROGRESS record between them.  V3 research has
tables of its own and takes a transaction per access.

### 1.3 What is hard

* Interleavings of commands on stale snapshots, above all those that no rule
  of `_validate_transition` was written for.
* A crash between the two transactions of a refresh, or between a paid
  provider call and the save of its result.
* Time stamps: clients supply `decided_at`, `executed_at`, `as_of`; providers
  supply the time of quotes; both histories insist on increasing time.  The
  order of steps and the order of stamps are unrelated.
* Rounding of quantities against cash and against targets.
* Validity conditions of the aggregate that a later, unrelated command trips.

`PROJECT.json` lists each hazard at its line with the properties about it, and
says of the others why there is none yet.

## 2. Modules

| Module | Models | Role |
|---|---|---|
| `LocalRunStore` | `_validate_transition`'s rules, as operators | used by all that save |
| `AppendOnlyLedger` | what the store promises: records are only added | abstract |
| `PriceRefresh` | refresh, recovery, other writers, crashes | implements `AppendOnlyLedger` |
| `CycleLifecycle` | the life of one decision cycle | abstract |
| `DecisionCycle` | every command of the V1 cycle, the decision steps of the operator's checklist | implements `CycleLifecycle` |
| `PaperBook` | a portfolio, and the purchases `portfolio_service` computes on it | pure |
| `ValuePolicy` | constitution, policy, evidence bands, the manager's assessment | pure |
| `SystemSafety` | `risk_validation`'s rules and the trade they authorise | pure, uses `PaperBook`, `ValuePolicy` |
| `ManagedTrading` | journals, decisions, checks and executions of several cycles on one portfolio, quotes, the constitution file, readiness, the audit | composes `SystemSafety` with the commands |
| `PairedAccounts` | two accounts, funded together | abstract |
| `PerformanceView` | comparison, return and chart of two histories, and when they raise | pure |
| `PairedLedger` | deposits, fulfilments, marks, executions | implements `PairedAccounts`; uses `PaperBook`, `PerformanceView` |
| `V2Lifecycle` | the life of one V2 cycle | abstract |
| `TargetPlan` | the arithmetic of `build_batch_trade_plan` and System Safety | pure |
| `ScreeningV2` | the V2 screen, the research subjects, the targets accepted | pure |
| `V2WeeklyCycle` | prepare, readiness, decide, execute | implements `V2Lifecycle`, uses `TargetPlan`, `ScreeningV2` |
| `ResearchV3` | concurrent V3 builds over cache and slots | |
| `FundamentalRecords` | the slots of `screen_research`, the reuse rules of `refresh_fundamentals` | pure |
| `ResearchPackets` | coverage, derived metrics and assembled packets of Research V2 | pure, uses `FundamentalRecords`, `ValuePolicy` |
| `ResearchPipeline` | Research V2 builds beside overview bootstraps | uses `ResearchPackets` |
| `PriceRefreshProofs`, `DecisionCycleProofs`, `ManagedTradingProofs`, `PairedLedgerProofs`, `V2WeeklyCycleProofs`, `ResearchV3Proofs`, `ResearchPipelineProofs` | the theorems of the module each is named after | proofs |
| `ArithmeticTheorems` | extrema and sums over finite sets, quotients, increasing sequences | lemmas |
| `MC*` | bounds for TLC | model checking |

### 2.1 Correspondence

*A command* is two actions: one named after the method (`ApplyCashEvent`,
`RunValueManager`, `Prepare`, ...) reads the run and computes the proposal,
guarded by the conditions under which the method reaches `save_transition`;
`SaveTransition` commits the proposal if `Accepts` holds of it and the *stored*
run, and drops it otherwise.  Between the two, other threads save.  The save
may also fail for reasons outside the model (a disk error, a crash of this
thread), so it always has the alternative of changing nothing.  A thread
without a proposal is idle.

*`LocalRunStore`*: `RequireImmutableRecords`, `RequireHistoryPrefix`,
`RequirePriceRefreshOperation` and `UniqueKeys` are the helpers and the unique
index of the store; each module's `Accepts` applies them to its part of the
aggregate, together with that part of the aggregate's own validation.

*`PriceRefresh`*: sessions are requests in flight, with the phase of
`RefreshPricesService.refresh` they are in; `db` is the database, the only
thing that survives `Crash`.  `used` hands out operation ids (uuid4);
`ended` and `persistedBy` are history variables for the properties.

*`DecisionCycle`*: a research batch carries the cycle's id, as
`recommendation_cycle_id` does.  Manager and reviewer are any admissible
answer; the field `by` keeps two answers to one question distinct, as their
identifiers do.

Of the seven steps of `workflow_checklist`, `DecisionCycle` has the four that
are read from the cycle journaled last (`DecisionSteps`; the cycle is
`latest`): `Completed` is the set of those done, `TerminalSteps` of those shown
with nothing left to do.  `price_refresh`, `spy_benchmark` and `research` are
left out, and with them the blocker of a failed refresh in
`weekly_run_readiness`.  The first two do go back in the code, when a refresh
begins or fails and when a deposit follows a fulfilment (or a stale writer sets
the status back); nothing here claims that they only move forward.

*`ValuePolicy`* and *`SystemSafety`*: a content hash stands for the text it is
the hash of, and an identity of a security is a record of its four fields, so
that a packet without an exchange fails to name one, as in the code.  A
finding is told apart by rule and severity.  `ValidatedTrade` is the trade of
`RiskValidationResult`, or none.

*`ManagedTrading`*: `RunValueManager` reads portfolio, research, quotes and the
constitution file and saves one journal with the verdict; `Decide` is the
human; `ExecutePaperTrade` validates again on what it has read, and saves
either a failed check alone or the check, the trade, the portfolio, the
history and the valuation together.  `AmendPolicy` is an edit of the
file.  A date of a stamp is the date in the caller's time zone, which may be a
day behind the exchange's (`LocalDates`).

*`PerformanceView`* is a set of conditions: a request is a read of the run that
any state may be asked, so `DashboardCanBeShown` is an invariant of
`PairedLedger`.

*`ScreeningV2`*: a market is what the snapshot of the universe and the bars
say; price, dollar volume and score of a security are data.  The checks before
the ranking are one set (`Advanced`), as no later step asks which one failed.
In `V2WeeklyCycle` a preparation is `StartPreparation`, which reads the run,
and `Prepare`, whose screening reads it again; the thread is in `preparing`
between them.

*`PairedLedger`* and *`V2WeeklyCycle`*: a history is a sequence of valuation
snapshots; its last book is the current portfolio.  A quantity is a whole
number: one unit stands for one at the code's eighth decimal, so the rounding
of the code is the model's integer division.  In `V2WeeklyCycle` the run keeps
of the V1 commands their snapshots and `records`, the instants of their funding
results and executions: the store compares those too, and they tell a V1
purchase from a batch that leaves the same portfolio at the same time.

*`ResearchV3`*: a build walks its slate one company at a time, and every
access to the store is a step: `LookUp`, `Reserve` (or `SkipRetrieval`),
`CallProvider`, `KeepVersion`, `SaveBatch`.  `Die` is a crash or an error
nothing catches.

*`FundamentalRecords`*, *`ResearchPackets`* and *`ResearchPipeline`*: a record
keeps its name, endpoint, fiscal period and instant.  A build is `StartBuild` (its clock),
`LoadInputs` (the snapshot and the screening of it), one `RefreshName` per
selected name, and `PersistResearchCycle`, which adds to the run as it is by
then.  A bootstrap alternates `FetchOverview` and `PersistOverviewRecord`.
`BuildRaises` and `BootstrapRaises` stand for every way to end early: a
provider's error, a save refused because another one came between the method's
last read and its transaction, a crash.  The refresh of one name is one step:
its requests read nothing but the snapshot.  The rank key is computed from
price, 52-week high and PE, which the model does not have; `Rankings` allows
any order.  The guards against rewriting a record are never met, because an
identifier contains the microsecond of the fetch.  Instants are coarse: among
records of one instant `Newest` takes the newer facts, while the code, whose
instants are microseconds apart, meets no ties.  Of the facts in a record the
metrics only test whether they are there and positive; `Reported` says that of
each name, the same in every period.  Four quarters count as one fact.  A
metric's `uses` are the facts its value was computed from, which the code does
not keep: `input_keys`, here `inputs`, may name fewer or more.  `Policy` is the
assessment of `ValuePolicy`, applied to the assembled packet.  Texts, sections
and evidence items of a packet are left out.

## 3. Runs

| Run | Question | Bounds |
|---|---|---|
| `price_refresh` | Do overlapping refreshes, recoveries and writers keep one refresh live, all-or-nothing, and lose nothing? Is an interrupted refresh recovered? | 2 refreshers, 1 operator, 1 writer, 2 operations, 4 quotes (2 keys at 2 prices), 1 crash |
| `price_refresh_terminal` | Finding: is a terminal operation final? | the same |
| `decision_cycle` | Does every cycle follow the lifecycle under races? Do racing revisions leave one chain? Is an answer about the latest research? Do the decision steps of the checklist move forward? | 2 threads, 3 cycles, 1 check, 3 time stamps; a third cycle only as a second revision |
| `paired_ledger` | Are both accounts funded alike and never overdrawn, histories comparable, fills never in the past? Can every run be shown? | 2 threads, 4 instants over two dates, two buys, SPY at 2 and 3, quotes together or, on one date, an instant apart |
| `ledger_residual` | Finding: can every market price be persisted? | the same |
| `v2_weekly_cycle` | Screened, decided and executed for one portfolio? One outcome, one execution? Does the execution reach the target? Is readiness right? | 2 threads, 1 cycle, two targets, two markets, prices 2 and 3, a portfolio of 2 units and cash 2, one V1 purchase |
| `v2_exit` | Finding: can an approved exit be executed? | 1 thread, quotes up to an instant apart |
| `research_v3` | Slots, cache and batches under concurrent, dying builds | 3 builds, 2 companies, 1 slot, 2 dates |
| `research_v3_adapt` | Finding: does every saved batch reach the manager? | the same |
| `research_pipeline` | Are answers kept, packets backed, never older than before and baseline evidence whenever they should be, and every name researched? | 4 names, 1 ranked slot, the 5 endpoints, 1 build, 1 bootstrap of 2 requests, 2 instants, reuse within an instant |
| `managed_trading` | Is every trade covered, on target and auditable? Are journals about current facts, executions of ready cycles? | 2 threads, 2 cycles on one portfolio of two stocks, 2 checks, 5 recommendations, 2 feeds, 2 texts, 2 instants |
| `managed_exposure` | Finding: does a passed BUY increase the exposure? | 1 thread, 1 cycle, another stock fallen to a quarter |

Why the bounds suffice.  Every race in a snapshot-and-validate store is between
a stale proposal and one or two saves that overtook it, so two threads (each of
them able to save, read and save again) show every pair; the third writer of
`price_refresh` and the third build of `research_v3` are there because the
former has three kinds of client and the latter a cache that two builds can
change behind a third.  Two quotes per key are needed for a rewrite, two keys
for an addition; one crash reaches every phase.  Two instants per date and
more than one date let the residual, date and freshness rules differ.  Three
cycles are needed for two revisions to compete.

Three runs cut their state space with a constraint in the MC module, which
states what it keeps.  `MCDecisionCycle`: the third cycle and the third instant
come only as a second revision over decisions that fail System Safety.
`MCPairedLedger`: with one command in flight everything within the bounds
happens; two are in flight over runs of at most three snapshots and one
execution whose quotes came together, and the second buy only follows the first
without a Cash Event.  What the rest of the runs could add depends on time
stamps, not on the order of saves.  `MCManagedTrading`: the first cycle takes
every path, the second one buys the stock the first buys and only goes wrong by
what the first does to it; two saves race when each is an execution, a journal
or a refresh, as the others race in `decision_cycle`.  There a text is edited
after the journals; a quote's date and its time differ.

In `v2_weekly_cycle` the security held ranks first and one candidate is taken,
so the order of limit and holdings matters; the other one may lack a date the
benchmark has.  The V1 purchase is what changes the holdings between the two
reads of a preparation: with a deposit alone they would agree.  It can also leave
exactly the portfolio of a batch at its instant, so that only its record
(`AcceptsLostRecords` without it) keeps the one from passing for the other.  A second cycle
would be another source of the same change, at ten times the states.

In `research_pipeline` the slots hold three of the four names, so that one
always waits; the provider's endpoints turn to the new
quarter at different times, statements before the overview for one name and
the overview before a statement for another, which is what the reuse rules can
get wrong.  The names differ in the facts their provider leaves out or reports
as not positive (`MCReported`): the one whose overview is overtaken has its
shares from the overview only, so that figures computed from a stale overview
occur.  It has one build at a time, so its history variable `overlapped`
stays FALSE there: with two builds a packet may step back, and no document
promises it would not.  Its provider is orderly (`IsOrderly`): no endpoint
turns back, a statement is at most a quarter ahead of the overview, and if one
is ahead of the overview of a quarter then all of them showed that quarter
together.  `ResearchNeverStepsBack` is claimed of orderly providers.  Without
the last condition a packet can step back: a statement is refetched ahead of
the overview because *another* statement lags behind it; when the laggard has
caught up, the overview's quarter is complete on record, and the next refresh
reuses the older statement.  It takes two quarters and four instants (all
endpoints always within a quarter of each other), more than this run has; TLC
finds it on an instance of that size and one name, and finds no step back there
for any orderly calendar.  No document speaks of it.  `decision_cycle` leaves out HOLD answers: a HOLD takes
the path of a passed BUY without its trade; `managed_trading` has them.

Symmetry is declared for threads, cycles, builds and companies, where they are
interchangeable and no liveness is checked.  `CHECK_DEADLOCK FALSE` is in every
configuration but that of `research_pipeline`, where a build can always be
asked for: in the others identifiers and instants run out, and a server nobody
calls is idle.

Fairness (`FairSpec` of `PriceRefresh`): the scheduler runs a request to its
end (weak fairness of the steps of a refresh, a writer and the operator's own
request), provider calls end, with an answer or an error - HTTP calls have
timeouts - and an operator who finds a refresh interrupted keeps asking
(strong fairness of `Recovers`: without an operator the code promises nothing;
recovery is a command, not a background job).  Crashes are bounded by
`MaxCrashes`.

Fairness (`FairSpec` of `ResearchPipeline`): the operator repeats the weekly
build and a build goes on to its end (weak fairness of its steps), and from
some time on builds do not fail.  Without the latter the property is false of
the code: a name the provider refuses every time keeps the coverage slot, and
each build fails with it.  Nothing is assumed of bootstraps or of the clock.

No other module claims liveness: their commands are optional and
nobody retries a refused save.

### 3.1 Findings

1. *A terminal refresh can come back.*  The store compares an operation with
   the latest one only.  A command of another kind reads the run while a
   refresh is IN_PROGRESS; recovery fails that refresh, another one begins and
   ends, and then the command saves its copy of the run: the store takes the
   first operation, IN_PROGRESS in that copy, for a new one
   (`price_refresh_terminal`: `ReadRun`, and `SaveTransition` at the end).
2. *A benchmark that had too little cash blocks cheaper quotes.*  Once
   `NO_ACTION_INSUFFICIENT_BUYING_POWER` is recorded, a quote at which one unit
   could be bought makes the aggregate invalid; the refresh that brings it
   fails as a whole (`ledger_residual`).
3. *A complete sale cannot be executed.*  The result of a V2 batch is valued
   with all prices of the plan, but a valuation refuses the price of a security
   that is not held (`v2_exit`).
4. *A V3 batch may hold a subject from its future.*  A build started earlier
   takes a version cached by a build started later, and the adaptation to the
   manager's research refuses the batch (`research_v3_adapt`).
5. *A passed BUY may not increase the exposure.*  The current weight of a
   security is computed with the other positions at the price of their last
   purchase.  When another holding has fallen since, the weight is understated,
   and a BUY to a target below the synchronized weight passes and buys
   (`managed_exposure`).

Observations that no run shows as a violation, because no document says
otherwise: two failed checks of a cycle that is not executed make its audit
raise; a manager's answer is lost when another holding has no quote of the very
instant of the proposal's; candidates take the V3 slots before holdings, and a
holding without a document leaves the V2 manager no answer that is accepted; a
V2 execution whose quotes are on record already is refused by the index; a
rejection of a V2 cycle that System Safety blocked is accepted and not offered;
two executions between two marks leave the first cycle without a performance
snapshot; `benchmark_fulfillment_status` is set back by a stale writer; two
research batches of one instant, and a refresh over two market dates, are
refused; a statement refetched because of another one may be followed by the
reuse of an older one (section 3, `research_pipeline`).

An observation outside the models: `GET /v2/cycles/latest` is registered after
`GET /v2/cycles/{cycle_id}` in `api/routes.py`, which answers it first.

## 4. Proofs

`PriceRefreshProofs` proves, for any number of clients, operations, quotes and
crashes, the four invariants of `price_refresh` and that the run implements
`AppendOnlyLedger`.  The assumptions are those `PriceRefresh` names: the kinds
of client are disjoint, `NoId` is no identifier, a provider's answer has one
quote per key, artifacts and quotes have different keys.

The invariants are not inductive.  A session holds a proposal computed from an
older database, and saving it is harmless only because of what the proposal
says about that older database.  `IInv` adds the missing part: what a proposal
of each phase looks like (`Shape`), that it is contained in the database except
for what it is about to add (`Behind`), that a session whose operation is no
longer the latest is bound to be refused (`Stale`), that the marks a proposal
adds come with their quotes (`BringsQuote`), and that no two sessions share an
operation id (`OwnIds`).  Each action has a lemma.

`ResearchV3Proofs` proves the three invariants of `research_v3` for any number
of builds, companies, slots and any freshness.  `TypeOK` contains the budget
(`consumed` never exceeds `Limit`).  `DocumentsAreBacked` needs that a build
never gets ahead of its slate (`InShape`); `SkippedOnlyWhenSpent` needs that
every retrieval of a build was charged to its own date (`IsCharged`), because a
build skips also when its *own* limit is reached.  `OthersAreKept` says once
why the steps of a build leave the claims of the others standing: the cache and
the counters only grow.

`ResearchPipelineProofs` proves every property of `research_pipeline` but its
liveness, for any number of names, slots, builds and bootstraps, and whatever
statement endpoints there are; builds may overlap except where the property
itself says otherwise.  The assumptions are `RecordAssumption` (bounds are
numbers, there is a name, OVERVIEW is no statement) and `PipelineAssumption`
(the universe lists each name, the provider publishes typed periods).  `IInv` adds to them that a
build has no packets before its snapshot (`NothingYet`), that snapshot and
reused facts stay on record (`BuildsAreBacked`), and that between two requests
nothing is pending (`OneIsPending`).  The operators have lemmas of their own:
`LeastBy` and `Newest` choose a member of their argument, a selection fits the
slots (`SelectionFitsTheSlots`), a refresh shows only what was cached or just
fetched (`RefreshShowsCachedOrFetched`).  `NeverResearchedComesNext` is the step
that `EveryNameIsResearched` depends on, for any ranking: the slot after the
ranked ones goes to a name without statements while there is one.
`SavedPacketsAreBaseline` proves `BaselineUnlessOvertaken` for any facts
reported (`ReportAssumption`: the five endpoints, and `statement_shares` is
`latest_shares`).  Its invariant is `BuildsAreComplete`: every packet of a build
has one status of each endpoint, stale only for an overtaken overview
(`RefreshIsComplete`).  The rest is about operators: a complete refresh covers
every endpoint, and each of the 16 metrics is attributed at least to the facts
it is computed from (`DerivedMetricsAreComplete`), so that its freshness speaks
for them.

`NothingStepsBack` proves `ResearchNeverStepsBack`, for any orderly calendar of
any length.  Its invariant `Steady` explains why the rules of reuse suffice when
builds do not overlap: statements are fetched together, so that what is on
record of one instant is complete (`IsGrouped`); a statement fetched ahead of
the overview never skips a quarter that is on record and that the overview
still shows, because that quarter would be complete and would have been reused
(`NothingIsSkipped`); and a build alone has read every statement on record
(`IsUpToDate`), bootstraps adding overviews only.  So a statement, fetched or
reused, is at least as new as all on record (`RefreshGoesForward`), and what a
build holds goes on from what is shown (`IsForward`).  That these hold only
`~overlapped` is part of `SteadyInv`: two builds side by side do break them.

`ManagedTradingProofs` proves type correctness and four properties of
`managed_trading` for any number of threads, cycles, checks and quotes, any
recommendations, packets and texts.  The assumption is `TradingAssumption`:
identifiers and bounds are what they are named, a BUY has a target weight, and
a provider's quote has an instant and a positive price.  `Inv` adds to `TypeOK` that the run and every proposal are
accounted for (`IsAccountedFor`: each execution has its journal, approval and
passed check, and exactly one step of the history moves the portfolio by it)
and that the run satisfies the decision graph `PersistedRunState.validate`
demands (`ValidDecisionGraph`).  A save replaces the run by a proposal that
may be stale: that executions are not doubled comes from the graph, which
`Accepts` demands of the *proposal*, and that the history fits comes from the
history prefix.  For the two action properties, `Pending` says that what a
proposal adds was right when it was computed, and that the facts it rests on
are still part of the run *if* the run's history and quotes are still within
the proposal's; a save by another thread keeps this (`PendingIsKept`), and a
save of the proposal itself only happens in that case.  `ExecutionsReachTheTarget` is
one more fact about one run and about each proposal (`OnTarget`): an execution
keeps the book before and the book after it, and
`FeasiblePurchaseReachesTheTarget` bounds what one purchase leaves between the
position and its target, by the quotient `calculate_target_purchase` rounds
down and by the cash the passed check asks for.

`DecisionCycleProofs` proves every property of `decision_cycle` for any number
of threads, cycles, checks and time stamps, from `IdAssumption` (`NoId` is no
identifier) and `AnswerAssumption` (answers are verdicts).  Types, history and
lineage are facts about one run: they hold of the run *and* of every proposal
by itself (`IsSound`), so saving a proposal cannot break them, however stale.
What a save does to the run it replaces needs more, because that run is not the
one the proposal was computed on.  `Pending` says that a proposal adds at most
one record to the run of the moment (`AddsOneRecord`), with what that record
rests on, and that a decision it adds is about the latest of the batches
(`JournalsTheLatest`).  The saves of other threads keep this, as they only add
records and a decision is only saved by a proposal that has every batch and
decision there is (`PendingIsKept`).  One added record is one step of
`CycleLifecycle` (`IsLifeStep`, with a lemma per kind of record), or none.

`V2WeeklyCycleProofs` proves every property of `v2_weekly_cycle`
for any market, portfolio, limit and number of cycles, from `CycleAssumption`
and `ScreeningAssumption` (amounts are numbers, the universe is finite, tickers
tell securities apart, scores of what is listed are integers).  A thread
between the two reads of a preparation holds a copy of an earlier run, which
lacks only what came later (`IsCopy`).  `IsPending` says of a proposal that all
its cycles but one are no further than those of the run, that it decides and
executes cycles the run has, and that *if* the run's history is still within
the proposal's, each of its cycles was screened for the portfolio it is about;
the store accepts it only in that case.  `FirstOfARanking` and
`RanksAreDistinct` say that the slate is the best of what is not held.

The other three properties are about amounts.  `IsAccounted` holds of the run
and of each proposal: the history is in strict order of time, each of its
snapshots is a mark of the one before, the record of a V1 command or the result
of an executed cycle, and each executed cycle has its result there.  What a
batch does is `DesiredIsNearest` (a quantity rounded half-even is within half a
unit of its target) and `ResultIsWorthThePlan` (what the trades cost is what
the positions gain).  `BatchesApplyToTheirPortfolio` compares a save with the
run it replaces.  `HasBasis` says that an execution in a proposal is in the run
already (`IsDone`), or comes in the proposal right after a history the run
still begins with, which ends in the portfolio of its plan (`IsDue`).  If the
run has gone on from there, the store takes the proposal only when the run's
next snapshot is the batch's own; by `IsAccounted` that snapshot is an
execution of the run, a record or a mark, and the first is excluded by the
comparison of executions, the second by that of records, the third because a
batch that trades changes the portfolio (`BatchIsNoMark`).  Without `records`
in the model the second case is left over, and TLC finds it
(`AcceptsLostRecords`).

`PairedLedgerProofs` proves every property of `paired_ledger` for
any threads, securities, buys, quotes and instants, from `SecurityAssumption`
and `AmountAssumption`.  `IsSound` again holds of the run and of each proposal
by itself.  It says that times grow along a history, that every benchmark
snapshot has its managed counterpart and every deposit both (`AreCoupled`),
that a fulfilment is between the money it spends and later money, and that no
trade is later than the managed history.  The rest is about two coupled
histories, however long: of one length they agree position by position
(`SamePositions`: counterparts follow each other, so the first disagreement is
impossible on either side), with unequal ones nothing is unmatched
(`NothingUnmatched`, `SameCashEvents`), and cut at a common time they are
coupled again (`PrefixesAreComparable`), which is what the chart and the
performance since an execution need.

`TypeOK` and the refinement of `PairedAccounts` need what the commands do with
money.  `IsMove` says of a proposal what it adds to the histories it was
computed from: a purchase of the managed side, a deposit of both, or a
valuation of both, with a purchase of the benchmark or without.  `AccountInv`
adds that these histories are prefixes of those of the run (`IsOfEarlierRun`).
Then a save is one step of `PairedAccounts` or none (`SaveIsAccountStep`):
as the store accepts the proposal, what the run has added to them is part of
what the proposal adds.  A deposit is there as a whole or not at all
(`DepositOfBoth`), because the deposits of the two sides are coupled.  A purchase moves money from cash to
what is invested (`PurchaseIsPaid`, `InvestedByPurchase`), for which the number
of securities must be finite (`UniverseAssumption` of `PaperBook`).

`ArithmeticTheorems` has what these proofs need about numbers.  The sums of a
portfolio are the library's folds, recursive functions; the induction over a
finite set is on a minimal counterexample among its subsets, since a theorem
with an operator parameter cannot be instantiated.  `SumStep` is the equation
of a sum, and from it follow that a sum is a number, grows with its terms, and
changes by what one term changes (`SumWithout`, `SumMonotone`, `SumOfSums`).

Only model-checked:

* liveness (`InterruptedIsRecovered`, `EveryNameIsResearched`), which is out of
  the prover's reach; the step that the second depends on is
  `NeverResearchedComesNext`.

## 5. Not modelled

See "components" in `PROJECT.json` for the reason of each.  In short: JSON
encoding, HTTP and parsing, prompts and schemas, most response models and the
frontend keep no state of their own and copy fields; providers are an answer or
an error; the demo builds one fixed run; the V2 audit store has no caller but
tests, and neither has `record_preapproval`.  Abstractions inside the modelled
parts: amounts are whole and small; a manager's answer is any admissible one; a
finding is a rule and a severity; in `ResearchV3` a batch and a date have the
same limit, as in the code; the features of a V2 screening are data.

## 6. Plan

In this order:

1. `RunInitialization`: schema and first insert, two first starts, a crash
   between; reopening a saved run through the codec.
2. `Calendar`: market dates that differ within a refresh; dates inside V3
   documents.
3. Metrics that take facts of two statements (`cash_conversion`, the values
   that follow from the market capitalisation) when these report different
   quarters, which the freshness of a packet does not tell.
