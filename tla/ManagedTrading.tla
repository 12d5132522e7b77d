---------------------------- MODULE ManagedTrading ----------------------------
(***************************************************************************)
(* Decision cycles together with the managed portfolio they trade: the     *)
(* Value Manager's recommendation is journaled with the verdict of System  *)
(* Safety on the portfolio and the quote of that moment, approved by a     *)
(* human, revalidated against the portfolio and the policy of the moment   *)
(* of execution, and executed on paper.                                    *)
(*                                                                         *)
(* Each command reads the run, computes and saves later.  In between other *)
(* cycles are executed, quotes and research arrive, and the constitution   *)
(* file changes.  Time stamps come from clients.  The review, the revision *)
(* and the history entries of a cycle are in DecisionCycle; the benchmark, *)
(* Cash Events and marks are in PairedLedger.                              *)
(***************************************************************************)
EXTENDS LocalRunStore, SystemSafety

CONSTANTS
  Threads,          \* threads serving commands
  Cycles,           \* decision cycles (uuid4), one per research batch
  First,            \* the cycle whose research is there at the start
  Packets,          \* cycle -> the packets of its research batch
  Recommendations,  \* what the manager may answer
  Checks,           \* execution check ids (uuid4)
  Feeds,            \* what the provider may return: security -> [at, price]
  InitialBook,      \* the managed portfolio at the start
  DayLength,        \* instants in a market date
  MaxTime           \* bound on time stamps

ASSUME TradingAssumption ==
  /\ NoId \notin Threads /\ First \in Cycles
  /\ InitialBook \in Books
  /\ DayLength \in Nat \ {0} /\ MaxTime \in Nat \ {0}
  /\ \A r \in Recommendations :
       \/ r = Hold
       \/ r.action = "BUY" /\ r.weight \in 1..100
  /\ \A feed \in Feeds, s \in Securities :
       feed[s].at \in 1..MaxTime /\ feed[s].price \in Nat \ {0}

VARIABLES
  run,        \* the persisted aggregate
  proposals,  \* per thread, the aggregate it is about to save
  text        \* what the constitution file holds

vars == <<run, proposals, text>>

Times == 0..MaxTime

Day(t) == t \div DayLength

(* The date of a stamp in the caller's time zone; market dates are the     *)
(* exchange's.                                                             *)
LocalDates(at) == {Day(at), IF Day(at) > 0 THEN Day(at) - 1 ELSE 0}

Quotes == [security : Securities, at : Times, day : Nat, price : Nat]

Snapshots == [at : Times, source : Times, book : Books]

Research == [cycle : Cycles, created : Times]

(* "by": two answers of the manager are different.                         *)
Journals == [cycle : Cycles, recommendation : Recommendations, at : Times,
             book : Books, quote : Quotes \cup {NoQuote},
             failed : SUBSET RuleIds, findings : SUBSET Findings,
             policy : Texts, by : Threads]

Approvals == [cycle : Cycles, decision : {"APPROVED", "REJECTED"}, at : Times]

CheckRecords == [id : Checks, cycle : Cycles, at : Times, quote : Quotes,
                 book : Books, failed : SUBSET RuleIds, policy : Texts,
                 lineage : BOOLEAN]

Executions == [id : Checks, cycle : Cycles, at : Times, quote : Quotes,
               before : Books, after : Books]

Runs == [history : Seq(Snapshots), quotes : SUBSET Quotes,
         research : SUBSET Research, journals : SUBSET Journals,
         approvals : SUBSET Approvals, checks : SUBSET CheckRecords,
         executions : SUBSET Executions]

NewRun ==
  [history    |-> <<[at |-> 0, source |-> 0, book |-> InitialBook]>>,
   quotes     |-> {},
   research   |-> {[cycle |-> First, created |-> 0]},
   journals   |-> {}, approvals |-> {}, checks |-> {}, executions |-> {}]

NoProposal == [NewRun EXCEPT !.history = <<>>]

TypeOK == /\ run \in Runs
          /\ proposals \in [Threads -> Runs]
          /\ text \in Texts

Init == /\ run = NewRun
        /\ proposals = [t \in Threads |-> NoProposal]
        /\ text \in Texts

Newest(history) == history[Len(history)]

Managed(r) == Newest(r.history).book

Of(records, c) == {x \in records : x.cycle = c}

LatestOf(quotes) == CHOOSE q \in quotes : \A other \in quotes : other.at <= q.at

(* PortfolioValuation.from_portfolio: a quote of the source time for every *)
(* position, none older or newer.                                          *)
ValuedAt(book, r, source) ==
  \A s \in Held(book) : \E q \in r.quotes : q.security = s /\ q.at = source

MayAppend(history, at) == at > Newest(history).at

-----------------------------------------------------------------------------
(* PersistedRunState.validate and the store's rules *)

OnePerCycle(records) == \A a, b \in records : a.cycle = b.cycle => a = b

HasCycleIn(records, others) == \A x \in records : Of(others, x.cycle) # {}

IsPassedBuy(j) == j.recommendation.action = "BUY" /\ j.failed = {}

PassedCheck(check) == check.lineage /\ check.failed = {}

Authorizes(check, e) ==
  /\ check.id = e.id /\ check.cycle = e.cycle
  /\ PassedCheck(check)
  /\ check.quote = e.quote /\ check.at = e.at /\ check.book = e.before

(* _validate_decision_graph *)
ValidDecisionGraph(r) ==
  /\ OnePerCycle(r.journals)
  /\ OnePerCycle(r.approvals) /\ HasCycleIn(r.approvals, r.journals)
  /\ \A a, b \in r.checks : a.id = b.id => a = b
  /\ HasCycleIn(r.checks, r.approvals)
  /\ OnePerCycle(r.executions) /\ HasCycleIn(r.executions, r.approvals)
  /\ \A e \in r.executions : \E check \in r.checks : Authorizes(check, e)

(* Mutant: quotes may be replaced. *)
AcceptsOldQuotes(current, proposed) ==
  /\ RequireHistoryPrefix(current.history, proposed.history)
  /\ RequireImmutableRecords(current.research, proposed.research)
  /\ RequireImmutableRecords(current.journals, proposed.journals)
  /\ RequireImmutableRecords(current.approvals, proposed.approvals)
  /\ RequireImmutableRecords(current.checks, proposed.checks)
  /\ RequireImmutableRecords(current.executions, proposed.executions)
  /\ ValidDecisionGraph(proposed)

Accepts(current, proposed) ==
  /\ RequireHistoryPrefix(current.history, proposed.history)
  /\ RequireImmutableRecords(current.quotes, proposed.quotes)
  /\ RequireImmutableRecords(current.research, proposed.research)
  /\ RequireImmutableRecords(current.journals, proposed.journals)
  /\ RequireImmutableRecords(current.approvals, proposed.approvals)
  /\ RequireImmutableRecords(current.checks, proposed.checks)
  /\ RequireImmutableRecords(current.executions, proposed.executions)
  /\ ValidDecisionGraph(proposed)

Proposes(t, proposed) ==
  /\ proposals[t] = NoProposal
  /\ proposals' = [proposals EXCEPT ![t] = proposed]
  /\ UNCHANGED <<run, text>>

-----------------------------------------------------------------------------
(* Commands, from the read to the call of save_transition *)

InUse == {run} \cup {proposals[t] : t \in Threads}

FreshCycles == Cycles \ UNION {{b.cycle : b \in r.research} : r \in InUse}

FreshChecks == Checks \ UNION {{k.id : k \in r.checks} : r \in InUse}

(* persist_research_cycle *)
BuildResearch(t) ==
  \E c \in FreshCycles, now \in Times :
    Proposes(t, [run EXCEPT !.research =
                   @ \cup {[cycle |-> c, created |-> now]}])

IsAuthoritative(b, r) ==
  {c \in r.research : \A other \in r.research : other.created <= c.created} = {b}

(* _eligible_buy_observation *)
EligibleQuotes(r, packet, at, today) ==
  {q \in r.quotes : /\ HasSecurity(packet)
                    /\ q.security = PacketSecurity(packet)
                    /\ q.security.currency = BaseCurrency
                    /\ q.at <= at /\ q.day <= today}

JournalQuote(r, recommendation, packet, at, today) ==
  IF recommendation.action = "HOLD" THEN NoQuote
  ELSE LET eligible == EligibleQuotes(r, packet, at, today)
       IN IF eligible = {} THEN NoQuote ELSE LatestOf(eligible)

(* Without a quote a BUY is journaled unassessed.                          *)
FindingsOn(recommendation, packet, quote, policy) ==
  IF recommendation.action = "BUY" /\ quote = NoQuote THEN {}
  ELSE Assess(recommendation, packet, quote.security, policy)

(* _risk_snapshot: the assessment of a BUY values the whole portfolio at   *)
(* the instant of the quote, and the command fails where it cannot.        *)
CanBeAssessed(r, quote) == quote # NoQuote => ValuedAt(Managed(r), r, quote.at)

(* The entry, computed from one read of the run and of the policy.         *)
Journal(t, c, recommendation, at, today) ==
  LET packet == PacketFor(Packets[c], recommendation)
      quote  == JournalQuote(run, recommendation, packet, at, today)
  IN [cycle |-> c, recommendation |-> recommendation, at |-> at,
      book |-> Managed(run), quote |-> quote,
      failed |-> FailedRules(recommendation, packet, quote, at, today, Managed(run)),
      findings |-> FindingsOn(recommendation, packet, quote, text),
      policy |-> text, by |-> t]

(* RunValueManagerService.run *)
RunValueManager(t) ==
  \E b \in run.research, recommendation \in Recommendations, at \in Times :
    \E today \in LocalDates(at) :
      LET journal == Journal(t, b.cycle, recommendation, at, today)
      IN /\ IsAuthoritative(b, run)
         /\ Of(run.journals, b.cycle) = {}
         /\ at >= b.created
         /\ IsVerified(Packets[b.cycle], recommendation)
         /\ MayAssess(ActivePolicy(text), ValueManagerConstitution(text))
         /\ CanBeAssessed(run, journal.quote)
         /\ Proposes(t, [run EXCEPT !.journals = @ \cup {journal}])

(* DecisionApprovalService.decide *)
Decide(t) ==
  \E j \in run.journals, decision \in {"APPROVED", "REJECTED"}, at \in Times :
    /\ Of(run.approvals, j.cycle) = {}
    /\ decision = "APPROVED" => j.failed = {}
    /\ at >= j.at
    /\ Proposes(t, [run EXCEPT !.approvals =
         @ \cup {[cycle |-> j.cycle, decision |-> decision, at |-> at]}])

(* Mutant: quotes from before the approval are eligible. *)
AnyQuoteOfTheTrade(r, j, a, at) ==
  {q \in r.quotes : q.security = j.quote.security /\ q.at <= at}

(* _latest_observation chooses among these *)
ExecutionQuotes(r, j, a, at) ==
  {q \in r.quotes : q.security = j.quote.security /\ q.at \in a.at..at}

(* Mutant: the policy is not compared. *)
CheckUnderAnyPolicy(id, j, quote, at, today) ==
  [id |-> id, cycle |-> j.cycle, at |-> at, quote |-> quote,
   book |-> Managed(run),
   failed |-> FailedRules(j.recommendation,
                          PacketFor(Packets[j.cycle], j.recommendation),
                          quote, at, today, Managed(run)),
   policy |-> text, lineage |-> TRUE]

(* ExecutionSafetyCheck: the journaled recommendation on the portfolio and *)
(* under the policy of now.                                                *)
CheckNow(id, j, quote, at, today) ==
  [id |-> id, cycle |-> j.cycle, at |-> at, quote |-> quote,
   book |-> Managed(run),
   failed |-> FailedRules(j.recommendation,
                          PacketFor(Packets[j.cycle], j.recommendation),
                          quote, at, today, Managed(run)),
   policy |-> text, lineage |-> SameLineage(j.policy, text)]

(* _persist_check *)
WithCheck(r, check) == [r EXCEPT !.checks = @ \cup {check}]

(* SimulatedExecutionWorkflow.execute *)
ExecutionOf(check, j) ==
  [id |-> check.id, cycle |-> j.cycle, at |-> check.at, quote |-> check.quote,
   before |-> check.book,
   after |-> Bought(check.book, check.quote.security,
                    j.recommendation.weight, check.quote.price)]

WithExecution(r, e) ==
  [r EXCEPT !.history = Append(@, [at |-> e.at, source |-> e.quote.at,
                                   book |-> e.after]),
            !.executions = @ \cup {e}]

(* The new portfolio is a valid one, all of it has a quote of the same     *)
(* instant, and the history takes it.                                      *)
CanBeRecorded(r, e) ==
  /\ e.after \in Books
  /\ ValuedAt(e.after, r, e.quote.at)
  /\ MayAppend(r.history, e.at)

MayExecute(r, j, a) ==
  /\ a.decision = "APPROVED" /\ IsPassedBuy(j)
  /\ Of(r.executions, j.cycle) = {}

(* ManagedPaperExecutionService.execute.  A check that fails is saved by   *)
(* itself, and so is a passed one whose trade cannot be recorded.          *)
ExecutePaperTrade(t) ==
  \E j \in run.journals, at \in Times, id \in FreshChecks :
    \E a \in Of(run.approvals, j.cycle), today \in LocalDates(at) :
      LET eligible == ExecutionQuotes(run, j, a, at)
          check    == CheckNow(id, j, LatestOf(eligible), at, today)
          e        == ExecutionOf(check, j)
      IN /\ MayExecute(run, j, a)
         /\ eligible # {}
         /\ IF PassedCheck(check) /\ CanBeRecorded(run, e)
            THEN Proposes(t, WithExecution(WithCheck(run, check), e))
            ELSE Proposes(t, WithCheck(run, check))

QuotesOf(feed) ==
  {[security |-> s, at |-> feed[s].at, day |-> Day(feed[s].at),
    price |-> feed[s].price] : s \in Securities}

Rewrites(r, feed) ==
  \E q \in QuotesOf(feed), old \in r.quotes :
    q.security = old.security /\ q.at = old.at /\ q # old

(* _apply_observations; the benchmark is not fulfilled, so nothing is      *)
(* marked.                                                                 *)
RefreshPrices(t) ==
  \E feed \in Feeds :
    /\ ~Rewrites(run, feed)
    /\ Proposes(t, [run EXCEPT !.quotes = @ \cup QuotesOf(feed)])

(* The constitution file is edited, or edited back, under the server.      *)
AmendPolicy ==
  /\ text' \in Texts \ {text}
  /\ UNCHANGED <<run, proposals>>

(* save_transition commits the proposal or raises; nobody retries.         *)
SaveTransition(t) ==
  /\ proposals[t] # NoProposal
  /\ \/ Accepts(run, proposals[t]) /\ run' = proposals[t]
     \/ UNCHANGED run
  /\ proposals' = [proposals EXCEPT ![t] = NoProposal]
  /\ UNCHANGED text

Next == \/ AmendPolicy
        \/ \E t \in Threads :
             \/ BuildResearch(t) \/ RunValueManager(t) \/ Decide(t)
             \/ ExecutePaperTrade(t) \/ RefreshPrices(t) \/ SaveTransition(t)

Spec == Init /\ [][Next]_vars

-----------------------------------------------------------------------------
(* What the read side shows *)

(* execution_readiness_response *)
Readiness(r, j) ==
  LET approved == {a \in Of(r.approvals, j.cycle) : a.decision = "APPROVED"}
  IN CASE Of(r.executions, j.cycle) # {}       -> "ALREADY_EXECUTED"
       [] j.recommendation.action = "HOLD"     -> "HOLD"
       [] j.failed # {}                        -> "VALIDATION_FAILED"
       [] Of(r.approvals, j.cycle) = {}        -> "NOT_APPROVED"
       [] approved = {}                        -> "REJECTED"
       [] ~\E q \in r.quotes, a \in approved :
             q.security = j.quote.security /\ q.at >= a.at
                                               -> "POST_APPROVAL_QUOTE_REQUIRED"
       [] OTHER                                -> "READY"

(* Mutant: every attempt counts. *)
AllAttempts(r, c) == Of(r.checks, c)

(* decision_cycle_audit: the check that authorized the execution, or, as   *)
(* long as there is none, the checks of the cycle.                         *)
AuditedChecks(r, c) ==
  IF Of(r.executions, c) = {} THEN Of(r.checks, c)
  ELSE {check \in Of(r.checks, c) : \E e \in Of(r.executions, c) : check.id = e.id}

(* Two checks are an error, and so is an execution without its own.        *)
CanBeAudited(r, c) ==
  /\ Cardinality(AuditedChecks(r, c)) <= 1
  /\ \A e \in Of(r.executions, c) : \E check \in AuditedChecks(r, c) :
       PassedCheck(check) /\ check.quote = e.quote /\ check.at = e.at

-----------------------------------------------------------------------------
(* Properties *)

(* The i-th snapshot of the history is what this execution made of the one *)
(* before it.                                                              *)
Moves(r, e, i) ==
  /\ r.history[i - 1].book = e.before
  /\ r.history[i] = [at |-> e.at, source |-> e.quote.at, book |-> e.after]

(* A human approved a passed BUY of this cycle, the quote was observed     *)
(* between approval and execution, and System Safety passed on the very    *)
(* portfolio that was traded, under the constitutions of the journal; a    *)
(* target above the starter guidance was flagged to reviewer and human.    *)
IsCovered(r, e) ==
  \E j \in r.journals, a \in r.approvals, check \in r.checks :
    /\ j.cycle = e.cycle /\ a.cycle = e.cycle /\ check.id = e.id
    /\ a.decision = "APPROVED" /\ IsPassedBuy(j)
    /\ j.at <= a.at /\ a.at <= e.quote.at /\ e.quote.at <= e.at
    /\ e.quote.security = j.quote.security
    /\ check.failed = {} /\ check.book = e.before
    /\ SameLineage(j.policy, check.policy)
    /\ j.recommendation.weight > 10 => RequiresStrongerJustification(j.findings)

(***************************************************************************)
(* docs/architecture.md and portfolio-domain-model.md: no trade without    *)
(* validation, human approval and execution-time revalidation.  Whatever   *)
(* the threads do with stale reads, every change of the managed portfolio  *)
(* is one covered execution, every execution changed it, and each cycle    *)
(* has at most one.                                                        *)
(***************************************************************************)
ExecutionsAreCovered ==
  /\ \A i \in 2..Len(run.history) : \E e \in run.executions : Moves(run, e, i)
  /\ \A e \in run.executions :
       /\ IsCovered(run, e)
       /\ \E i \in 2..Len(run.history) : Moves(run, e, i)
  /\ OnePerCycle(run.executions)

(***************************************************************************)
(* portfolio-manager-contract.md:70: the exact target weight is converted  *)
(* into shares.  An execution leaves the position at the target and less   *)
(* than one unit below it, at the value calculate_target_purchase uses,    *)
(* although other cycles traded since the journal: a target that can only  *)
(* be met in part is refused.                                              *)
(***************************************************************************)
ExecutionsReachTheTarget ==
  \A e \in run.executions : \A j \in Of(run.journals, e.cycle) :
    LET s      == e.quote.security
        target == ValueAt(e.before, s, e.quote.price) * j.recommendation.weight
        value  == 100 * e.after.held[s].quantity * e.quote.price
    IN value <= target /\ target < value + 100 * e.quote.price

(* The quotes a BUY journaled at this instant may use on either date.      *)
QuotesFor(r, j) ==
  IF j.recommendation.action = "HOLD" THEN {}
  ELSE {q \in r.quotes : \A today \in LocalDates(j.at) :
          q \in EligibleQuotes(r, PacketFor(Packets[j.cycle], j.recommendation),
                               j.at, today)}

(***************************************************************************)
(* A manager's answer takes as long as a language model does.  It is only  *)
(* journaled if, when it is saved, the portfolio it was validated on is    *)
(* still the current one, its research the latest, and no quote has come   *)
(* that its validation had to prefer.                                      *)
(***************************************************************************)
JournaledOnCurrentFacts ==
  [][\A j \in run'.journals \ run.journals :
       /\ j.book = Managed(run)
       /\ \E b \in run.research : b.cycle = j.cycle /\ IsAuthoritative(b, run)
       /\ \A q \in QuotesFor(run, j) : q.at <= j.quote.at]_vars

(***************************************************************************)
(* api/queries.py, workflow_checklist: "`executable` is the existing       *)
(* authoritative readiness contract".  A cycle the API shows as anything   *)
(* but READY is not executed by the next commit.                           *)
(***************************************************************************)
OnlyReadyCyclesAreExecuted ==
  [][\A e \in run'.executions \ run.executions :
       \E j \in run.journals : j.cycle = e.cycle /\ Readiness(run, j) = "READY"]_vars

(***************************************************************************)
(* api/queries.py:318-321: "A failed revalidation is durable evidence and  *)
(* a later retry may legitimately succeed."  An executed cycle can be      *)
(* audited whatever attempts came before.                                  *)
(***************************************************************************)
ExecutedCyclesCanBeAudited ==
  \A e \in run.executions : CanBeAudited(run, e.cycle)

(* The prices of the quotes of one instant.                                *)
PricesAt(r, at) ==
  [s \in Securities |->
     IF \E q \in r.quotes : q.security = s /\ q.at = at
     THEN (CHOOSE q \in r.quotes : q.security = s /\ q.at = at).price ELSE 0]

(***************************************************************************)
(* docs/portfolio-manager-contract.md:361-362: "For a BUY, the proposed    *)
(* target must increase exposure above the synchronized current exact-     *)
(* `SecurityIdentity` weight under the current BUY-only mechanics."  The   *)
(* synchronized weight is the one of the journal's RiskEvaluationSnapshot. *)
(***************************************************************************)
PassedBuysIncreaseExposure ==
  \A j \in run.journals : IsPassedBuy(j) =>
    RiskEvaluationSnapshot(j.book, PricesAt(run, j.quote.at), j.quote.security,
                           j.recommendation.weight).delta > 0
=============================================================================
