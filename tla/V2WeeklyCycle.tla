---------------------------- MODULE V2WeeklyCycle ----------------------------
(***************************************************************************)
(* The V2 weekly cycle: prepare (screen, research, allocate, plan, check,  *)
(* review), one human outcome, and one atomic paper execution of the       *)
(* batch.  Every step reads the run and saves a replacement of it later;   *)
(* preparation takes minutes between the two and reads the run a second    *)
(* time for the screening.  Deposits, marks and price refreshes of the     *)
(* same run come in between.                                               *)
(***************************************************************************)
EXTENDS LocalRunStore, ScreeningV2

CONSTANTS
  Threads,      \* threads serving commands
  Cycles,       \* cycle ids (uuid4)
  Allocations,  \* the targets the manager may answer with: [weights, named]
  Feeds,        \* the provider's answers: security -> [at, price]
  Markets,      \* what a screening finds: [listed, bars, benchmark]
  InitialCash,  \* cash of the managed portfolio at the start
  InitialHeld,  \* what V1 cycles have bought before: security -> quantity
  Deposit,      \* amount of a Cash Event
  Purchase,     \* a V1 paper trade: [security, quantity, cost]
  MaxTime       \* bound on time stamps

ASSUME CycleAssumption ==
  /\ NoId \notin Cycles \cup Threads
  /\ {InitialCash, Deposit, MaxTime} \subseteq Nat \ {0}
  /\ InitialHeld \in [Securities -> Nat]
  /\ Purchase.security \in Securities
  /\ {Purchase.quantity, Purchase.cost} \subseteq Nat \ {0}
  /\ \A a \in Allocations : IsAllocation(a)
  /\ \A market \in Markets :
       /\ market.listed \subseteq Securities
       /\ \A s \in market.listed : market.bars[s].score \in Int
  /\ \A feed \in Feeds, s \in Securities :
       feed[s].at \in 1..MaxTime /\ feed[s].price \in Nat \ {0}

VARIABLES
  run,          \* the persisted aggregate
  proposals,    \* per thread, the aggregate it is about to save
  preparing     \* the threads whose proposal is just what prepare has read

vars == <<run, proposals, preparing>>

Times == 0..MaxTime

QuoteKeys == [security : Securities, at : Times]

(* The artifacts a later step may not touch, then what later steps fill    *)
(* in.  "by": two answers to one question are different records.           *)
IsCycle(c) ==
  /\ c.id \in Cycles /\ c.created \in Times
  /\ c.screening.rank \in [Securities -> Nat]
  /\ c.screening.holdings \subseteq Securities
  /\ c.screening.new \subseteq Securities
  /\ c.plan.original \in Books /\ c.plan.weights \in Targets
  /\ Priced(c.plan) \subseteq Securities
  /\ c.safe \in BOOLEAN
  /\ c.outcome \in {"NONE", "APPROVED", "REJECTED"}
  /\ c.decided \in Times /\ c.by \in Threads \cup {NoId}
  /\ c.executed \in Times

IsRun(r) ==
  /\ r.managed \in Seq([at : Times, book : [cash : Nat, held : [Securities -> Nat]]])
  /\ r.quotes \in SUBSET QuoteKeys /\ r.records \in SUBSET Times
  /\ \A c \in r.cycles : IsCycle(c)
  /\ \A a, b \in r.cycles : a.id = b.id => a = b

NewRun ==
  [managed |-> <<[at |-> 0, book |-> [cash |-> InitialCash, held |-> InitialHeld]]>>,
   quotes  |-> {},
   records |-> {},
   cycles  |-> {}]

NoProposal == [NewRun EXCEPT !.managed = <<>>]

TypeOK == /\ IsRun(run)
          /\ DOMAIN proposals = Threads
          /\ \A t \in Threads : IsRun(proposals[t])
          /\ preparing \subseteq {t \in Threads : proposals[t] # NoProposal}

Init == /\ run = NewRun
        /\ proposals = [t \in Threads |-> NoProposal]
        /\ preparing = {}

Newest(history) == history[Len(history)]

Managed(r) == Newest(r.managed).book

MayAppend(r, at) == at > Newest(r.managed).at

-----------------------------------------------------------------------------
(* save_transition *)

SameArtifacts(old, new) ==
  /\ old.id = new.id /\ old.created = new.created
  /\ old.screening = new.screening
  /\ old.plan = new.plan /\ old.safe = new.safe

(* Mutant: the outcome of a cycle is not compared. *)
OutcomesMayChange(current, proposed) ==
  \A old \in current : \E new \in proposed :
    /\ SameArtifacts(old, new)
    /\ old.executed > 0 => new.executed = old.executed

(* _require_v2_cycle_transitions *)
RequireV2CycleTransitions(current, proposed) ==
  \A old \in current : \E new \in proposed :
    /\ SameArtifacts(old, new)
    /\ old.outcome # "NONE" =>
         /\ new.outcome = old.outcome
         /\ new.decided = old.decided /\ new.by = old.by
    /\ old.executed > 0 => new.executed = old.executed

(* Mutant: the histories and what goes with them are not compared. *)
AcceptsAnyHistory(current, proposed) ==
  /\ RequireImmutableRecords(current.quotes, proposed.quotes)
  /\ RequireV2CycleTransitions(current.cycles, proposed.cycles)

(* Mutant: what V1 commands have recorded is not compared. *)
AcceptsLostRecords(current, proposed) ==
  /\ RequireHistoryPrefix(current.managed, proposed.managed)
  /\ RequireImmutableRecords(current.quotes, proposed.quotes)
  /\ RequireV2CycleTransitions(current.cycles, proposed.cycles)

Accepts(current, proposed) ==
  /\ RequireHistoryPrefix(current.managed, proposed.managed)
  /\ RequireImmutableRecords(current.quotes, proposed.quotes)
  /\ RequireImmutableRecords(current.records, proposed.records)
  /\ RequireV2CycleTransitions(current.cycles, proposed.cycles)

Proposes(t, proposed) ==
  /\ proposals[t] = NoProposal
  /\ proposals' = [proposals EXCEPT ![t] = proposed]
  /\ UNCHANGED <<run, preparing>>

WithSnapshot(r, at, book) ==
  [r EXCEPT !.managed = Append(@, [at |-> at, book |-> book])]

(* The funding result of a deposit, the execution of a purchase: a history *)
(* has one snapshot of a time, so the time says whose it is.               *)
WithRecord(r, at) == [r EXCEPT !.records = @ \cup {at}]

ReplaceCycle(r, old, new) == [r EXCEPT !.cycles = (@ \ {old}) \cup {new}]

-----------------------------------------------------------------------------
(* V2WeeklyCycleService *)

Fresh == Cycles \ UNION {{c.id : c \in r.cycles} :
                           r \in {run} \cup {proposals[t] : t \in Threads}}

(* The prices fetched: those of the holdings and of the target's names.    *)
PlanFor(book, allocation, feed) ==
  [original |-> book,
   weights  |-> allocation.weights,
   prices   |-> [s \in Held(book) \cup allocation.named |-> feed[s]]]

(* ScreenUniverseV2Service.execute: the holdings are those of the run it   *)
(* reads itself.                                                           *)
ScreenNow(market) == Screen(market, Held(Managed(run)))

(* prepare reads the run: portfolio, research, plan and the aggregate it   *)
(* will save are of this moment.                                           *)
StartPreparation(t) ==
  /\ proposals[t] = NoProposal
  /\ proposals' = [proposals EXCEPT ![t] = run]
  /\ preparing' = preparing \cup {t}
  /\ UNCHANGED run

(* The screening reads the run again, for the holdings.  Research, target, *)
(* plan, safety and review follow; quotes are not from the future.  An     *)
(* answer that is refused ends the preparation.                            *)
Prepare(t) ==
  /\ t \in preparing
  /\ \E id \in Fresh, market \in Markets, allocation \in Allocations,
        feed \in Feeds, now \in Times :
       LET read      == proposals[t]
           book      == Managed(read)
           screening == ScreenNow(market)
           plan      == PlanFor(book, allocation, feed)
           cycle     == [id |-> id, created |-> now, screening |-> screening,
                         plan |-> plan, safe |-> IsSafe(plan), outcome |-> "NONE",
                         decided |-> 0, by |-> NoId, executed |-> 0]
       IN /\ \A s \in Priced(plan) : feed[s].at <= now
          /\ IF IsResearchBounded(allocation, screening, book)
             THEN proposals' = [proposals EXCEPT
                                  ![t] = [read EXCEPT !.cycles = @ \cup {cycle}]]
             ELSE proposals' = [proposals EXCEPT ![t] = NoProposal]
  /\ preparing' = preparing \ {t}
  /\ UNCHANGED run

Decided(c, outcome, at, t) ==
  [c EXCEPT !.outcome = outcome, !.decided = at, !.by = t]

MayDecide(c, at) == /\ Legs(c.plan) # {}
                    /\ c.outcome = "NONE"
                    /\ at >= c.created

Approve(t) ==
  \E c \in run.cycles, at \in Times :
    /\ MayDecide(c, at)
    /\ c.safe
    /\ Proposes(t, ReplaceCycle(run, c, Decided(c, "APPROVED", at, t)))

(* A cycle that failed System Safety can be rejected.                      *)
Reject(t) ==
  \E c \in run.cycles, at \in Times :
    /\ MayDecide(c, at)
    /\ Proposes(t, ReplaceCycle(run, c, Decided(c, "REJECTED", at, t)))

(* Mutant: the portfolio of the plan need not be the current one. *)
NeverStale(r, plan) == TRUE

IsCurrent(r, plan) == Managed(r) = plan.original

(* PortfolioValuation.from_portfolio over the whole snapshot: one time,    *)
(* and a price for exactly the securities the result holds.                *)
IsValuedBySnapshot(plan) ==
  /\ \A a, b \in Priced(plan) : plan.prices[a].at = plan.prices[b].at
  /\ Priced(plan) = Held(Result(plan))

KeysOf(plan) == {[security |-> s, at |-> plan.prices[s].at] : s \in Priced(plan)}

(* The observations are appended without asking which of them the run has: *)
(* with one it has, the index refuses the duplicate and nothing is saved.  *)
Execute(t) ==
  \E c \in run.cycles, at \in Times :
    /\ c.outcome = "APPROVED" /\ c.executed = 0
    /\ at >= c.decided
    /\ IsCurrent(run, c.plan)
    /\ IsSafe(c.plan)
    /\ IsValuedBySnapshot(c.plan)
    /\ MayAppend(run, at)
    /\ KeysOf(c.plan) \cap run.quotes = {}
    /\ Proposes(t, WithSnapshot(
         [ReplaceCycle(run, c, [c EXCEPT !.executed = at])
            EXCEPT !.quotes = @ \cup KeysOf(c.plan)],
         at, Result(c.plan)))

(* Mutant: a rejection is shown before a failed System Safety check. *)
OutcomeFirst(c) ==
  IF Legs(c.plan) = {} THEN "NOT_APPLICABLE"
  ELSE IF c.outcome # "NONE" THEN c.outcome
  ELSE IF ~c.safe THEN "BLOCKED" ELSE "PENDING"

(* readiness: the approval status, and the commands offered next.          *)
ApprovalStatus(c) ==
  IF Legs(c.plan) = {} THEN "NOT_APPLICABLE"
  ELSE IF ~c.safe THEN "BLOCKED"
  ELSE IF c.outcome = "NONE" THEN "PENDING" ELSE c.outcome

AvailableNext(c) ==
  IF ApprovalStatus(c) = "PENDING" THEN {"APPROVED", "REJECTED"}
  ELSE IF ApprovalStatus(c) = "APPROVED" /\ c.executed = 0 THEN {"EXECUTED"}
  ELSE {}

-----------------------------------------------------------------------------
(* What the other commands do to the same artifacts; PairedLedger has them *)
(* in full.                                                                *)

ApplyCashEvent(t) ==
  \E at \in Times :
    /\ MayAppend(run, at)
    /\ Proposes(t, WithSnapshot(WithRecord(run, at), at,
         [Managed(run) EXCEPT !.cash = @ + Deposit]))

(* A V1 decision cycle buys, at a quote of its own: the holdings change.   *)
(* A purchase may leave exactly the portfolio of a batch at its instant;   *)
(* the store tells them apart by its execution.                            *)
ExecuteBuy(t) ==
  \E at \in Times :
    /\ MayAppend(run, at)
    /\ Managed(run).cash >= Purchase.cost
    /\ Proposes(t, WithSnapshot(WithRecord(run, at), at,
         [Managed(run) EXCEPT !.cash = @ - Purchase.cost,
                              !.held[Purchase.security] = @ + Purchase.quantity]))

RefreshPrices(t) ==
  \E feed \in Feeds :
    LET keys   == {[security |-> s, at |-> feed[s].at] : s \in Securities}
        quoted == [run EXCEPT !.quotes = @ \cup keys]
    IN \/ Proposes(t, quoted)
       \/ \E at \in {feed[s].at : s \in Securities} :
            /\ MayAppend(run, at)
            /\ Proposes(t, WithSnapshot(quoted, at, Managed(run)))

(* save_transition commits the proposal or raises, for the rules above or  *)
(* for a failure of the database; nobody retries.                          *)
SaveTransition(t) ==
  /\ proposals[t] # NoProposal /\ t \notin preparing
  /\ \/ Accepts(run, proposals[t]) /\ run' = proposals[t]
     \/ UNCHANGED run
  /\ proposals' = [proposals EXCEPT ![t] = NoProposal]
  /\ UNCHANGED preparing

Next == \E t \in Threads :
          \/ StartPreparation(t) \/ Prepare(t) \/ Approve(t) \/ Reject(t) \/ Execute(t)
          \/ ApplyCashEvent(t) \/ ExecuteBuy(t) \/ RefreshPrices(t)
          \/ SaveTransition(t)

Spec == Init /\ [][Next]_vars

-----------------------------------------------------------------------------
(* Properties *)

Stage(r, id) ==
  IF \A c \in r.cycles : c.id # id THEN "ABSENT"
  ELSE LET c == CHOOSE c \in r.cycles : c.id = id
       IN IF c.executed > 0 THEN "EXECUTED"
          ELSE IF c.outcome = "NONE" THEN "PLANNED" ELSE c.outcome

Lifecycle == INSTANCE V2Lifecycle WITH stage <- [id \in Cycles |-> Stage(run, id)]

(***************************************************************************)
(* V2WeeklyCycleService: approvals, rejections and executions computed on  *)
(* stale snapshots leave each cycle with one human outcome and at most     *)
(* one execution, which only an approval leads to.                         *)
(***************************************************************************)
LifecycleIsImplemented == Lifecycle!Spec

(***************************************************************************)
(* v2_weekly_cycle.py:3-4: "The durable local-run aggregate is the sole    *)
(* source of truth; readiness is projected from immutable artifacts."      *)
(* Whatever was read and saved in between, a recorded cycle only changes   *)
(* by a step its readiness offered at that moment, or - a cycle that       *)
(* System Safety has blocked can still be rejected - it keeps the status   *)
(* it is shown with: what is shown as terminal stays so.                   *)
(***************************************************************************)
OnlyOfferedSteps ==
  [][\A old \in run.cycles, new \in run'.cycles :
       old.id = new.id /\ old # new =>
         \/ (IF new.executed > 0 THEN "EXECUTED" ELSE new.outcome)
              \in AvailableNext(old)
         \/ AvailableNext(old) = {} /\ ApprovalStatus(new) = ApprovalStatus(old)]_vars

(***************************************************************************)
(* adr-011-v2-daily-bar-screening.md:16-18 and                             *)
(* adr-013-research-v3-candidate-and-holding-batches.md:10-12: the review  *)
(* slate carries every current holding and is bounded by the profile.      *)
(* Although the screening reads the run a second time, a recorded cycle    *)
(* was screened for the portfolio it plans to trade: its research is about *)
(* all the holdings of that portfolio and the best-ranked securities it    *)
(* does not hold, and the target starts a position in no other.            *)
(***************************************************************************)
ReviewsCoverThePortfolio ==
  \A c \in run.cycles :
    LET held  == Held(c.plan.original)
        new   == NewSubjects(c.screening, c.plan.original)
        ideas == {s \in Securities \ held : c.screening.rank[s] > 0}
    IN /\ c.screening.holdings = held
       /\ \/ new = ideas
          \/ /\ new \subseteq ideas /\ Cardinality(new) = CandidateLimit
             /\ \A s \in new, o \in ideas \ new :
                  c.screening.rank[s] < c.screening.rank[o]
       /\ {s \in Securities : c.plan.weights[s] > 0} \subseteq held \cup new

(***************************************************************************)
(* adr-012-v2-immutable-batch-trade-plans.md:23-24: "Execution rejects     *)
(* any changed portfolio or snapshot before it applies the full batch      *)
(* atomically."  When a cycle becomes executed, the portfolio of that      *)
(* very moment is the one the plan was made and approved for, and it       *)
(* becomes the plan's whole result, however many deposits and other        *)
(* batches were saved since it was read.                                   *)
(***************************************************************************)
BatchesApplyToTheirPortfolio ==
  [][\A c \in run'.cycles :
       c.executed > 0 /\ (\A old \in run.cycles : old.id = c.id => old.executed = 0)
       => /\ Managed(run) = c.plan.original
          /\ Managed(run') = Result(c.plan)
          /\ c.outcome = "APPROVED" /\ c.safe]_vars

(***************************************************************************)
(* domain/target_execution_v2.py:192-209 (long-only, no leverage) and      *)
(* adr-009-versioned-portfolio-target-v2.md:10-12: what System Safety      *)
(* lets through is the manager's allocation.  Right after an execution     *)
(* every position is within half a unit of its target, and trading at the  *)
(* plan's prices has neither made nor lost value.                          *)
(***************************************************************************)
ExecutionReachesTheTarget ==
  \A c \in run.cycles : c.executed > 0 /\ Newest(run.managed).at = c.executed =>
    LET total == Value(c.plan.original, c.plan.prices)
        book  == Managed(run)
    IN /\ Value(book, c.plan.prices) = total
       /\ \A s \in Priced(c.plan) :
            LET unit == WeightUnits * c.plan.prices[s].price
                off  == 2 * (book.held[s] * unit - total * c.plan.weights[s])
            IN -unit <= off /\ off <= unit

(***************************************************************************)
(* adr-012-v2-immutable-batch-trade-plans.md:20-21: "EXIT removes an       *)
(* explicit V2 `REMOVE` target; SELL removes an existing holding omitted   *)
(* from the complete target."  So an approved plan whose prices are of     *)
(* one time can be valued after it is applied, also when it sells a        *)
(* holding completely.                                                     *)
(***************************************************************************)
ApprovedExitsCanBeExecuted ==
  \A c \in run.cycles :
    /\ c.outcome = "APPROVED"
    /\ \A a, b \in Priced(c.plan) : c.plan.prices[a].at = c.plan.prices[b].at
    => IsValuedBySnapshot(c.plan)
=============================================================================
