------------------------- MODULE ManagedTradingProofs -------------------------
(***************************************************************************)
(* What holds of ManagedTrading for any number of threads, cycles,         *)
(* securities, recommendations and policies.                               *)
(***************************************************************************)
EXTENDS ManagedTrading, ArithmeticTheorems, TLAPS

-----------------------------------------------------------------------------
(* The values commands compute *)

(* A set of quotes has a latest one.                                       *)
LEMMA LatestOfQuotes ==
  ASSUME NEW S \in SUBSET Quotes, S # {}
  PROVE  LatestOf(S) \in S /\ \A q \in S : q.at <= LatestOf(S).at
<1>1. {q.at : q \in S} \in SUBSET (0..MaxTime) /\ {q.at : q \in S} # {}
  BY DEF Quotes, Times
<1>2. MaxTime \in Nat
  BY TradingAssumption
<1>3. PICK x \in {q.at : q \in S} : \A y \in {q.at : q \in S} : y <= x
  BY <1>1, <1>2, GreatestExists
<1>4. \E q \in S : \A other \in S : other.at <= q.at
  BY <1>3
<1> QED
  BY <1>4 DEF LatestOf

(* System Safety answers with its own rules.                               *)
LEMMA FailuresAreRules ==
  ASSUME NEW recommendation, NEW packet, NEW quote, NEW at, NEW today, NEW book
  PROVE  FailedRules(recommendation, packet, quote, at, today, book)
           \in SUBSET RuleIds
<1>1. \A condition : \A rule \in RuleIds : RuleIf(condition, rule) \in SUBSET RuleIds
  BY DEF RuleIf
<1>2. InputFailures(packet, quote, at, today) \in SUBSET RuleIds
  BY <1>1 DEF InputFailures, RuleIds
<1>3. FundingFailures(recommendation, quote, book) \in SUBSET RuleIds
  BY <1>1 DEF FundingFailures, RuleIds
<1>4. /\ RuleIf(quote.security.type \notin SystemSafetyEnvelope.types,
                "PROHIBITED_TRADE_MECHANICS") \in SUBSET RuleIds
      /\ {"PRICE_OBSERVATION_REQUIRED"} \in SUBSET RuleIds
  BY <1>1 DEF RuleIds
<1> QED
  BY <1>2, <1>3, <1>4 DEF FailedRules

(* The advisory assessment consists of findings.                           *)
LEMMA AssessmentsAreFindings ==
  ASSUME NEW recommendation, NEW packet, NEW security, NEW policy
  PROVE  Assess(recommendation, packet, security, policy) \in SUBSET Findings
<1>1. \A condition : MaterialIf(condition) \in {"INFO", "ATTENTION", "MATERIAL"}
  BY DEF MaterialIf
<1> QED
  BY <1>1 DEF Assess, Finding, Findings

(* A BUY above the starter guidance is flagged, unless it failed.          *)
Flagged(j) ==
  IsPassedBuy(j) /\ j.recommendation.weight > 10 =>
    RequiresStrongerJustification(j.findings)

(* The starter guidance is part of every policy.                           *)
LEMMA LargeTargetsAreFlagged ==
  ASSUME NEW recommendation, recommendation.action = "BUY",
         recommendation.weight > 10,
         NEW packet, NEW security, NEW policy
  PROVE  RequiresStrongerJustification(
           Assess(recommendation, packet, security, policy))
<1>1. ActivePolicy(policy).risk.starter.max = 10
  BY DEF ActivePolicy, ManagerRiskConstitution
<1>2. Finding("NORMAL_STARTER_GUIDANCE_DEVIATION", "MATERIAL")
        \in Assess(recommendation, packet, security, policy)
  BY <1>1 DEF Assess, MaterialIf
<1> QED
  BY <1>2 DEF RequiresStrongerJustification, Finding

(* A new run, and the absence of a proposal, are aggregates.               *)
LEMMA InitialRunsAreTyped == NewRun \in Runs /\ NoProposal \in Runs
<1>1. 0 \in Times
  BY TradingAssumption DEF Times
<1>2. NewRun \in Runs
  BY <1>1, TradingAssumption DEF NewRun, Runs, Snapshots, Research
<1>3. <<>> \in Seq(Snapshots)
  OBVIOUS
<1> QED
  BY <1>2, <1>3 DEF NoProposal, Runs

-----------------------------------------------------------------------------
(* The records commands add *)

(* The newest snapshot holds a portfolio.                                  *)
LEMMA ManagedIsABook ==
  ASSUME NEW r \in Runs, Len(r.history) > 0
  PROVE  Newest(r.history) \in Snapshots /\ Managed(r) \in Books
<1>1. r.history \in Seq(Snapshots)
  BY DEF Runs
<1>2. Len(r.history) \in Nat /\ Len(r.history) \in 1..Len(r.history)
  BY <1>1
<1>3. r.history[Len(r.history)] \in Snapshots
  BY <1>1, <1>2
<1> QED
  BY <1>3 DEF Managed, Newest, Snapshots

(* The entry the manager service journals.                                 *)
LEMMA JournalIsTyped ==
  ASSUME run \in Runs, text \in Texts, Len(run.history) > 0,
         NEW t \in Threads, NEW c \in Cycles,
         NEW recommendation \in Recommendations,
         NEW at \in Times, NEW today
  PROVE  /\ Journal(t, c, recommendation, at, today) \in Journals
         /\ Flagged(Journal(t, c, recommendation, at, today))
<1> DEFINE packet  == PacketFor(Packets[c], recommendation)
           quote   == JournalQuote(run, recommendation, packet, at, today)
           journal == Journal(t, c, recommendation, at, today)
<1>1. quote \in Quotes \cup {NoQuote}
  <2>1. EligibleQuotes(run, packet, at, today) \in SUBSET Quotes
    BY DEF EligibleQuotes, Runs
  <2> HIDE DEF packet
  <2> QED
    BY <2>1, LatestOfQuotes DEF JournalQuote
<1>2. Managed(run) \in Books
  BY ManagedIsABook
<1>3. FindingsOn(recommendation, packet, quote, text) \in SUBSET Findings
  <2> HIDE DEF packet, quote
  <2> QED
    BY AssessmentsAreFindings DEF FindingsOn
<1>4. FailedRules(recommendation, packet, quote, at, today, Managed(run))
        \in SUBSET RuleIds
  BY FailuresAreRules
<1>5. journal \in Journals
  <2>1. journal = [cycle |-> c, recommendation |-> recommendation, at |-> at,
                   book |-> Managed(run), quote |-> quote,
                   failed |-> FailedRules(recommendation, packet, quote, at,
                                          today, Managed(run)),
                   findings |-> FindingsOn(recommendation, packet, quote, text),
                   policy |-> text, by |-> t]
    BY DEF Journal
  <2> HIDE DEF packet, quote, journal
  <2> QED
    BY <2>1, <1>1, <1>2, <1>3, <1>4 DEF Journals
<1>6. Flagged(journal)
  <2>1. /\ journal.recommendation = recommendation
        /\ journal.failed = FailedRules(recommendation, packet, quote, at,
                                        today, Managed(run))
        /\ journal.findings = FindingsOn(recommendation, packet, quote, text)
    BY DEF Journal
  <2> HIDE DEF packet, quote, journal
  <2> SUFFICES ASSUME IsPassedBuy(journal), recommendation.weight > 10
               PROVE  RequiresStrongerJustification(journal.findings)
    BY <2>1 DEF Flagged
  <2>2. recommendation.action = "BUY" /\ quote # NoQuote
    BY <2>1 DEF IsPassedBuy, FailedRules
  <2>3. journal.findings = Assess(recommendation, packet, quote.security, text)
    BY <2>1, <2>2 DEF FindingsOn
  <2> QED
    BY <2>2, <2>3, LargeTargetsAreFlagged
<1> QED
  BY <1>5, <1>6

(* The quote of an execution is one of the trade, not before the approval. *)
LEMMA ExecutionQuotesAreLater ==
  ASSUME run \in Runs, NEW j \in run.journals, NEW a \in run.approvals,
         NEW at \in Times, ExecutionQuotes(run, j, a, at) # {}
  PROVE  LET q == LatestOf(ExecutionQuotes(run, j, a, at))
         IN /\ q \in run.quotes /\ q \in Quotes
            /\ q.security = j.quote.security
            /\ a.at <= q.at /\ q.at <= at
<1>1. ExecutionQuotes(run, j, a, at) \in SUBSET Quotes
  BY DEF ExecutionQuotes, Runs
<1>2. LatestOf(ExecutionQuotes(run, j, a, at)) \in ExecutionQuotes(run, j, a, at)
  BY <1>1, LatestOfQuotes
<1>3. a.at \in Nat /\ at \in Nat
  BY TradingAssumption DEF Runs, Approvals, Times
<1> QED
  BY <1>1, <1>2, <1>3 DEF ExecutionQuotes

(* The check of an execution.                                              *)
LEMMA CheckIsTyped ==
  ASSUME run \in Runs, text \in Texts, Len(run.history) > 0,
         NEW id \in Checks, NEW j \in run.journals, NEW quote \in Quotes,
         NEW at \in Times, NEW today
  PROVE  CheckNow(id, j, quote, at, today) \in CheckRecords
<1>1. Managed(run) \in Books
  BY ManagedIsABook
<1>2. SameLineage(j.policy, text) \in BOOLEAN
  BY DEF SameLineage
<1>3. j.cycle \in Cycles
  BY DEF Runs, Journals
<1>4. \A packet : FailedRules(j.recommendation, packet, quote, at, today,
                              Managed(run)) \in SUBSET RuleIds
  BY FailuresAreRules
<1> QED
  BY <1>1, <1>2, <1>3, <1>4 DEF CheckNow, CheckRecords

-----------------------------------------------------------------------------
(* An aggregate that tells how its portfolio came about.  Each conjunct is *)
(* about one aggregate, so what a command has read is as good as what is   *)
(* current when it saves.                                                  *)

ApprovalsFollow(r) ==
  \A a \in r.approvals, j \in r.journals : a.cycle = j.cycle => j.at <= a.at

IsAccountedFor(r) ==
  /\ Len(r.history) > 0
  /\ ApprovalsFollow(r)
  /\ \A j \in r.journals : Flagged(j)
  /\ \A i \in 2..Len(r.history) : \E e \in r.executions : Moves(r, e, i)
  /\ \A e \in r.executions :
       IsCovered(r, e) /\ \E i \in 2..Len(r.history) : Moves(r, e, i)

Inv ==
  /\ TypeOK
  /\ IsAccountedFor(run) /\ ValidDecisionGraph(run)
  /\ \A t \in Threads : proposals[t] # NoProposal => IsAccountedFor(proposals[t])

(* Nothing has happened yet.                                               *)
LEMMA NewRunIsAccountedFor == IsAccountedFor(NewRun) /\ ValidDecisionGraph(NewRun)
<1>1. Len(NewRun.history) = 1
  BY DEF NewRun
<1>2. NewRun.journals = {} /\ NewRun.approvals = {} /\ NewRun.checks = {}
      /\ NewRun.executions = {}
  BY DEF NewRun
<1> QED
  BY <1>1, <1>2
  DEF IsAccountedFor, ApprovalsFollow, ValidDecisionGraph, OnePerCycle, HasCycleIn

(* More records do not make it less accounted for.                         *)
LEMMA AccountIsKept ==
  ASSUME NEW r, NEW p, IsAccountedFor(r),
         p.history = r.history, p.executions = r.executions,
         r.journals \subseteq p.journals, r.approvals \subseteq p.approvals,
         r.checks \subseteq p.checks,
         ApprovalsFollow(p), \A j \in p.journals : Flagged(j)
  PROVE  IsAccountedFor(p)
<1>1. \A e, i : Moves(r, e, i) => Moves(p, e, i)
  BY DEF Moves
<1>2. \A e : IsCovered(r, e) => IsCovered(p, e)
  BY DEF IsCovered
<1> QED
  BY <1>1, <1>2 DEF IsAccountedFor

(* The new snapshot is what the new execution made of the newest one.      *)
LEMMA ExecutionIsAccountedFor ==
  ASSUME NEW r \in Runs, IsAccountedFor(r), NEW check, NEW e,
         IsCovered(WithExecution(WithCheck(r, check), e), e),
         e.before = Managed(r),
         [at |-> e.at, source |-> e.quote.at, book |-> e.after] \in Snapshots
  PROVE  IsAccountedFor(WithExecution(WithCheck(r, check), e))
<1> DEFINE snapshot == [at |-> e.at, source |-> e.quote.at, book |-> e.after]
           p        == WithExecution(WithCheck(r, check), e)
           n        == Len(r.history)
<1>1. r.history \in Seq(Snapshots) /\ n \in Nat /\ n > 0
  BY DEF Runs, IsAccountedFor
<1>2. /\ p.history = Append(r.history, snapshot)
      /\ p.executions = r.executions \cup {e}
      /\ p.journals = r.journals /\ p.approvals = r.approvals
      /\ p.checks = r.checks \cup {check}
  BY DEF WithExecution, WithCheck, Runs
<1> HIDE DEF p
<1>3. /\ Len(p.history) = n + 1
      /\ p.history[n + 1] = snapshot
      /\ \A i \in 1..n : p.history[i] = r.history[i]
  BY <1>1, <1>2
<1>4. \A x, i : i \in 2..n /\ Moves(r, x, i) => Moves(p, x, i)
  BY <1>1, <1>3 DEF Moves
<1>5. Moves(p, e, n + 1)
  BY <1>1, <1>3 DEF Moves, Managed, Newest
<1>6. \A x : IsCovered(r, x) => IsCovered(p, x)
  BY <1>2 DEF IsCovered
<1>7. \A i \in 2..(n + 1) : \E x \in p.executions : Moves(p, x, i)
  <2>1. SUFFICES ASSUME NEW i \in 2..(n + 1)
                 PROVE  \E x \in p.executions : Moves(p, x, i)
    OBVIOUS
  <2>2. CASE i = n + 1
    BY <2>2, <1>2, <1>5
  <2>3. CASE i # n + 1
    <3>1. i \in 2..n
      BY <2>3, <1>1
    <3> QED
      BY <3>1, <1>2, <1>4 DEF IsAccountedFor
  <2> QED
    BY <2>2, <2>3
<1>8. \A x \in p.executions :
        IsCovered(p, x) /\ \E i \in 2..(n + 1) : Moves(p, x, i)
  <2>1. SUFFICES ASSUME NEW x \in p.executions
                 PROVE  IsCovered(p, x) /\ \E i \in 2..(n + 1) : Moves(p, x, i)
    OBVIOUS
  <2>2. CASE x = e
    <3>1. IsCovered(p, e)
      BY DEF p
    <3>2. n + 1 \in 2..(n + 1)
      BY <1>1
    <3> QED
      BY <2>2, <3>1, <3>2, <1>5
  <2>3. CASE x \in r.executions
    <3>1. IsCovered(r, x)
      BY <2>3 DEF IsAccountedFor
    <3>2. PICK i \in 2..n : Moves(r, x, i)
      BY <2>3 DEF IsAccountedFor
    <3>3. i \in 2..(n + 1)
      BY <1>1
    <3> QED
      BY <3>1, <3>2, <3>3, <1>4, <1>6
  <2> QED
    BY <2>2, <2>3, <1>2
<1>9. ApprovalsFollow(p) /\ \A j \in p.journals : Flagged(j)
  BY <1>2 DEF ApprovalsFollow, IsAccountedFor
<1>10. IsAccountedFor(p)
  BY <1>1, <1>3, <1>7, <1>8, <1>9 DEF IsAccountedFor
<1> QED
  BY <1>10 DEF p

-----------------------------------------------------------------------------
(* Every action keeps the invariant *)

(* What a thread proposes need only be an aggregate that is accounted for. *)
LEMMA ProposalKeepsInv ==
  ASSUME Inv, NEW t \in Threads, NEW p \in Runs, IsAccountedFor(p),
         Proposes(t, p)
  PROVE  Inv'
<1>1. /\ proposals' = [proposals EXCEPT ![t] = p]
      /\ run' = run /\ text' = text
      /\ proposals \in [Threads -> Runs]
  BY DEF Inv, TypeOK, Proposes
<1>2. \A x \in Threads : proposals'[x] = IF x = t THEN p ELSE proposals[x]
  BY <1>1
<1>3. TypeOK'
  BY <1>1 DEF Inv, TypeOK
<1>4. IsAccountedFor(run)' /\ ValidDecisionGraph(run)'
  <2>1. IsAccountedFor(run) /\ ValidDecisionGraph(run)
    BY DEF Inv
  <2> QED
    BY <2>1, <1>1
<1>5. \A x \in Threads : proposals'[x] # NoProposal => IsAccountedFor(proposals'[x])
  BY <1>2 DEF Inv
<1>6. (\A x \in Threads : proposals[x] # NoProposal => IsAccountedFor(proposals[x]))'
  BY <1>5
<1> QED
  BY <1>3, <1>4, <1>6 DEF Inv

(* persist_research_cycle *)
LEMMA BuildResearchKeepsInv ==
  ASSUME Inv, NEW t \in Threads, BuildResearch(t)
  PROVE  Inv'
<1>1. PICK c \in FreshCycles, now \in Times :
        Proposes(t, [run EXCEPT !.research =
                       @ \cup {[cycle |-> c, created |-> now]}])
  BY DEF BuildResearch
<1> DEFINE p == [run EXCEPT !.research = @ \cup {[cycle |-> c, created |-> now]}]
<1>2. run \in Runs /\ IsAccountedFor(run)
  BY DEF Inv, TypeOK
<1>3. [cycle |-> c, created |-> now] \in Research
  BY DEF FreshCycles, Research
<1>4. p \in Runs
  BY <1>2, <1>3 DEF Runs
<1>5. /\ p.history = run.history /\ p.executions = run.executions
      /\ p.journals = run.journals /\ p.approvals = run.approvals
      /\ p.checks = run.checks
  BY <1>2 DEF Runs
<1> HIDE DEF p
<1>6. ApprovalsFollow(p) /\ \A j \in p.journals : Flagged(j)
  BY <1>2, <1>5 DEF IsAccountedFor, ApprovalsFollow
<1>7. IsAccountedFor(p)
  BY <1>2, <1>5, <1>6, AccountIsKept
<1>8. Proposes(t, p)
  BY <1>1 DEF p
<1> QED
  BY <1>4, <1>7, <1>8, ProposalKeepsInv

(* RunValueManagerService.run: a cycle without a journal has no approval   *)
(* yet, which the entry could follow.                                      *)
LEMMA RunValueManagerKeepsInv ==
  ASSUME Inv, NEW t \in Threads, RunValueManager(t)
  PROVE  Inv'
<1>1. PICK b \in run.research, recommendation \in Recommendations, at \in Times :
        \E today \in LocalDates(at) :
          /\ Of(run.journals, b.cycle) = {}
          /\ Proposes(t, [run EXCEPT !.journals =
               @ \cup {Journal(t, b.cycle, recommendation, at, today)}])
  BY DEF RunValueManager
<1>2. PICK today \in LocalDates(at) :
        /\ Of(run.journals, b.cycle) = {}
        /\ Proposes(t, [run EXCEPT !.journals =
             @ \cup {Journal(t, b.cycle, recommendation, at, today)}])
  BY <1>1
<1> DEFINE journal == Journal(t, b.cycle, recommendation, at, today)
           p == [run EXCEPT !.journals = @ \cup {journal}]
<1>3. /\ run \in Runs /\ text \in Texts /\ IsAccountedFor(run)
      /\ Len(run.history) > 0
      /\ HasCycleIn(run.approvals, run.journals)
  BY DEF Inv, TypeOK, IsAccountedFor, ValidDecisionGraph
<1>4. b.cycle \in Cycles
  BY <1>3 DEF Runs, Research
<1>5. journal \in Journals /\ Flagged(journal)
  BY <1>3, <1>4, JournalIsTyped
<1>6. journal.cycle = b.cycle
  BY DEF Journal
<1>7. Proposes(t, p)
  BY <1>2
<1> HIDE DEF journal
<1>8. p \in Runs
  BY <1>3, <1>5 DEF Runs
<1>9. /\ p.history = run.history /\ p.executions = run.executions
      /\ p.journals = run.journals \cup {journal} /\ p.approvals = run.approvals
      /\ p.checks = run.checks
  BY <1>3 DEF Runs
<1> HIDE DEF p
<1>10. \A a \in run.approvals : a.cycle # journal.cycle
  BY <1>2, <1>3, <1>6 DEF HasCycleIn, Of
<1>11. ApprovalsFollow(p)
  BY <1>3, <1>9, <1>10 DEF IsAccountedFor, ApprovalsFollow
<1>12. \A j \in p.journals : Flagged(j)
  BY <1>3, <1>5, <1>9 DEF IsAccountedFor
<1>13. IsAccountedFor(p)
  BY <1>3, <1>9, <1>11, <1>12, AccountIsKept
<1> QED
  BY <1>7, <1>8, <1>13, ProposalKeepsInv

(* DecisionApprovalService.decide *)
LEMMA DecideKeepsInv ==
  ASSUME Inv, NEW t \in Threads, Decide(t)
  PROVE  Inv'
<1>1. PICK j \in run.journals, decision \in {"APPROVED", "REJECTED"}, at \in Times :
        /\ at >= j.at
        /\ Proposes(t, [run EXCEPT !.approvals =
             @ \cup {[cycle |-> j.cycle, decision |-> decision, at |-> at]}])
  BY DEF Decide
<1> DEFINE a == [cycle |-> j.cycle, decision |-> decision, at |-> at]
           p == [run EXCEPT !.approvals = @ \cup {a}]
<1>2. run \in Runs /\ IsAccountedFor(run) /\ OnePerCycle(run.journals)
  BY DEF Inv, TypeOK, ValidDecisionGraph
<1>3. a \in Approvals
  BY <1>2 DEF Runs, Journals, Approvals
<1>4. p \in Runs
  BY <1>2, <1>3 DEF Runs
<1>5. /\ p.history = run.history /\ p.executions = run.executions
      /\ p.journals = run.journals /\ p.approvals = run.approvals \cup {a}
      /\ p.checks = run.checks
  BY <1>2 DEF Runs
<1>6. Proposes(t, p)
  BY <1>1
<1>7. a.cycle = j.cycle /\ a.at >= j.at
  BY <1>1
<1> HIDE DEF a, p
<1>8. \A i \in run.journals : i.cycle = a.cycle => i.at <= a.at
  <2>1. SUFFICES ASSUME NEW i \in run.journals, i.cycle = a.cycle
                 PROVE  i.at <= a.at
    OBVIOUS
  <2>2. i = j
    BY <2>1, <1>2, <1>7 DEF OnePerCycle
  <2>3. i.at \in Nat /\ a.at \in Nat
    BY <1>2, <1>3, TradingAssumption DEF Runs, Journals, Approvals, Times
  <2> QED
    BY <2>2, <2>3, <1>7
<1>9. ApprovalsFollow(p) /\ \A i \in p.journals : Flagged(i)
  BY <1>2, <1>5, <1>8 DEF IsAccountedFor, ApprovalsFollow
<1>10. IsAccountedFor(p)
  BY <1>2, <1>5, <1>9, AccountIsKept
<1> QED
  BY <1>4, <1>6, <1>10, ProposalKeepsInv

(* ManagedPaperExecutionService.execute, with and without a trade *)
LEMMA ExecutePaperTradeKeepsInv ==
  ASSUME Inv, NEW t \in Threads, ExecutePaperTrade(t)
  PROVE  Inv'
<1>1. PICK j \in run.journals, at \in Times, id \in FreshChecks :
        \E a \in Of(run.approvals, j.cycle), today \in LocalDates(at) :
          LET eligible == ExecutionQuotes(run, j, a, at)
              check    == CheckNow(id, j, LatestOf(eligible), at, today)
              e        == ExecutionOf(check, j)
          IN /\ MayExecute(run, j, a)
             /\ eligible # {}
             /\ IF PassedCheck(check) /\ CanBeRecorded(run, e)
                THEN Proposes(t, WithExecution(WithCheck(run, check), e))
                ELSE Proposes(t, WithCheck(run, check))
  BY DEF ExecutePaperTrade
<1>2. PICK a \in Of(run.approvals, j.cycle), today \in LocalDates(at) :
        LET eligible == ExecutionQuotes(run, j, a, at)
            check    == CheckNow(id, j, LatestOf(eligible), at, today)
            e        == ExecutionOf(check, j)
        IN /\ MayExecute(run, j, a)
           /\ eligible # {}
           /\ IF PassedCheck(check) /\ CanBeRecorded(run, e)
              THEN Proposes(t, WithExecution(WithCheck(run, check), e))
              ELSE Proposes(t, WithCheck(run, check))
  BY <1>1
<1> DEFINE quote == LatestOf(ExecutionQuotes(run, j, a, at))
           check == CheckNow(id, j, quote, at, today)
           e     == ExecutionOf(check, j)
<1>3. /\ run \in Runs /\ text \in Texts /\ IsAccountedFor(run)
      /\ Len(run.history) > 0
  BY DEF Inv, TypeOK, IsAccountedFor
<1>4. a \in run.approvals /\ a.cycle = j.cycle
  BY DEF Of
<1>5. /\ quote \in Quotes /\ quote.security = j.quote.security
      /\ a.at <= quote.at /\ quote.at <= at
  BY <1>2, <1>3, <1>4, ExecutionQuotesAreLater
<1>6. id \in Checks
  BY DEF FreshChecks
<1>7. /\ MayExecute(run, j, a)
      /\ IF PassedCheck(check) /\ CanBeRecorded(run, e)
         THEN Proposes(t, WithExecution(WithCheck(run, check), e))
         ELSE Proposes(t, WithCheck(run, check))
  BY <1>2
<1> HIDE DEF quote
<1>8. check \in CheckRecords
  BY <1>3, <1>5, <1>6, CheckIsTyped
<1>9. /\ check.id = id /\ check.cycle = j.cycle /\ check.at = at
      /\ check.quote = quote /\ check.book = Managed(run)
      /\ check.policy = text /\ check.lineage = SameLineage(j.policy, text)
  BY DEF CheckNow
<1>10. /\ e.id = check.id /\ e.cycle = j.cycle /\ e.at = check.at
       /\ e.quote = check.quote /\ e.before = check.book
  BY DEF ExecutionOf
<1>11. e = [id |-> e.id, cycle |-> e.cycle, at |-> e.at, quote |-> e.quote,
            before |-> e.before, after |-> e.after]
  BY DEF ExecutionOf
<1> HIDE DEF check, e
<1> DEFINE checked == WithCheck(run, check)
<1>12. /\ checked \in Runs
       /\ checked.history = run.history /\ checked.executions = run.executions
       /\ checked.journals = run.journals /\ checked.approvals = run.approvals
       /\ checked.checks = run.checks \cup {check}
       /\ checked.quotes = run.quotes /\ checked.research = run.research
  BY <1>3, <1>8 DEF WithCheck, Runs
<1>13. CASE PassedCheck(check) /\ CanBeRecorded(run, e)
  <2> DEFINE p        == WithExecution(checked, e)
             snapshot == [at |-> e.at, source |-> e.quote.at, book |-> e.after]
  <2>1. e \in Executions
    <3>1. e.after \in Books
      BY <1>13 DEF CanBeRecorded
    <3>2. /\ e.id \in Checks /\ e.cycle \in Cycles /\ e.at \in Times
          /\ e.quote \in Quotes /\ e.before \in Books
      BY <1>3, <1>8, <1>9, <1>10 DEF CheckRecords, Runs, Journals
    <3> QED
      BY <3>1, <3>2, <1>11 DEF Executions
  <2>2. snapshot \in Snapshots
    BY <2>1 DEF Executions, Quotes, Snapshots
  <2>3. p \in Runs
    <3>1. Append(checked.history, snapshot) \in Seq(Snapshots)
      BY <2>2, <1>12 DEF Runs
    <3> QED
      BY <3>1, <2>1, <1>12 DEF WithExecution, Runs
  <2>4. /\ p.journals = run.journals /\ p.approvals = run.approvals
        /\ p.checks = run.checks \cup {check}
    BY <1>12 DEF WithExecution, Runs
  <2> HIDE DEF checked
  <2>5. IsCovered(p, e)
    <3>1. a \in p.approvals /\ j \in p.journals /\ check \in p.checks
      BY <2>4, <1>4
    <3>2. j.cycle = e.cycle /\ a.cycle = e.cycle /\ check.id = e.id
      BY <1>4, <1>10
    <3>3. a.decision = "APPROVED" /\ IsPassedBuy(j)
      BY <1>7 DEF MayExecute
    <3>4. j.at <= a.at /\ a.at <= e.quote.at /\ e.quote.at <= e.at
      <4>1. j.at <= a.at
        BY <1>3, <1>4 DEF IsAccountedFor, ApprovalsFollow
      <4> QED
        BY <4>1, <1>5, <1>9, <1>10
    <3>5. e.quote.security = j.quote.security
      BY <1>5, <1>9, <1>10
    <3>6. /\ check.failed = {} /\ check.book = e.before
          /\ SameLineage(j.policy, check.policy)
      BY <1>9, <1>10, <1>13 DEF PassedCheck
    <3>7. j.recommendation.weight > 10 => RequiresStrongerJustification(j.findings)
      BY <3>3, <1>3 DEF IsAccountedFor, Flagged
    <3> HIDE DEF p
    <3> QED
      BY <3>1, <3>2, <3>3, <3>4, <3>5, <3>6, <3>7 DEF IsCovered
  <2>6. IsAccountedFor(p)
    <3>1. IsCovered(WithExecution(WithCheck(run, check), e), e)
      BY <2>5 DEF checked
    <3>2. e.before = Managed(run)
      BY <1>9, <1>10
    <3>3. IsAccountedFor(WithExecution(WithCheck(run, check), e))
      BY <3>1, <3>2, <2>2, <1>3, ExecutionIsAccountedFor
    <3> QED
      BY <3>3 DEF checked
  <2>7. Proposes(t, p)
    BY <1>7, <1>13 DEF checked
  <2> HIDE DEF p
  <2> QED
    BY <2>3, <2>6, <2>7, ProposalKeepsInv
<1>14. CASE ~(PassedCheck(check) /\ CanBeRecorded(run, e))
  <2>1. Proposes(t, checked)
    BY <1>7, <1>14
  <2> HIDE DEF checked
  <2>2. ApprovalsFollow(checked) /\ \A i \in checked.journals : Flagged(i)
    BY <1>3, <1>12 DEF IsAccountedFor, ApprovalsFollow
  <2>3. IsAccountedFor(checked)
    BY <2>2, <1>3, <1>12, AccountIsKept
  <2> QED
    BY <2>1, <2>3, <1>12, ProposalKeepsInv
<1> QED
  BY <1>13, <1>14

(* The quotes a provider returns are quotes.                               *)
LEMMA FeedsAreQuotes ==
  ASSUME NEW feed \in Feeds
  PROVE  QuotesOf(feed) \in SUBSET Quotes
<1>1. SUFFICES ASSUME NEW s \in Securities
               PROVE  [security |-> s, at |-> feed[s].at, day |-> Day(feed[s].at),
                       price |-> feed[s].price] \in Quotes
  BY DEF QuotesOf
<1>2. /\ feed[s].at \in Times /\ feed[s].price \in Nat
      /\ feed[s].at \in Nat /\ DayLength \in Nat \ {0}
  BY TradingAssumption DEF Times
<1>3. Day(feed[s].at) \in Nat
  BY <1>2 DEF Day
<1> QED
  BY <1>2, <1>3 DEF Quotes

(* _apply_observations *)
LEMMA RefreshPricesKeepsInv ==
  ASSUME Inv, NEW t \in Threads, RefreshPrices(t)
  PROVE  Inv'
<1>1. PICK feed \in Feeds :
        Proposes(t, [run EXCEPT !.quotes = @ \cup QuotesOf(feed)])
  BY DEF RefreshPrices
<1> DEFINE p == [run EXCEPT !.quotes = @ \cup QuotesOf(feed)]
<1>2. run \in Runs /\ IsAccountedFor(run)
  BY DEF Inv, TypeOK
<1>3. QuotesOf(feed) \in SUBSET Quotes
  BY FeedsAreQuotes
<1>4. p \in Runs
  BY <1>2, <1>3 DEF Runs
<1>5. /\ p.history = run.history /\ p.executions = run.executions
      /\ p.journals = run.journals /\ p.approvals = run.approvals
      /\ p.checks = run.checks
  BY <1>2 DEF Runs
<1>6. Proposes(t, p)
  BY <1>1
<1> HIDE DEF p
<1>7. ApprovalsFollow(p) /\ \A j \in p.journals : Flagged(j)
  BY <1>2, <1>5 DEF IsAccountedFor, ApprovalsFollow
<1>8. IsAccountedFor(p)
  BY <1>2, <1>5, <1>7, AccountIsKept
<1> QED
  BY <1>4, <1>6, <1>8, ProposalKeepsInv

(* save_transition: a proposal that is taken becomes the run as it is, and *)
(* its graph has been validated.                                           *)
LEMMA SaveTransitionKeepsInv ==
  ASSUME Inv, NEW t \in Threads, SaveTransition(t)
  PROVE  Inv'
<1>1. /\ proposals[t] # NoProposal
      /\ (Accepts(run, proposals[t]) /\ run' = proposals[t]) \/ run' = run
      /\ proposals' = [proposals EXCEPT ![t] = NoProposal]
      /\ text' = text
  BY DEF SaveTransition
<1>2. /\ run \in Runs /\ proposals \in [Threads -> Runs] /\ text \in Texts
      /\ IsAccountedFor(run) /\ ValidDecisionGraph(run)
      /\ IsAccountedFor(proposals[t])
  BY <1>1 DEF Inv, TypeOK
<1>3. run' \in Runs /\ IsAccountedFor(run') /\ ValidDecisionGraph(run')
  <2>1. CASE Accepts(run, proposals[t]) /\ run' = proposals[t]
    <3>1. ValidDecisionGraph(proposals[t])
      BY <2>1 DEF Accepts
    <3> QED
      BY <2>1, <3>1, <1>2
  <2>2. CASE run' = run
    BY <2>2, <1>2
  <2> QED
    BY <1>1, <2>1, <2>2
<1>4. TypeOK'
  BY <1>1, <1>2, <1>3, InitialRunsAreTyped DEF TypeOK
<1>5. \A x \in Threads : proposals'[x] # NoProposal => IsAccountedFor(proposals'[x])
  BY <1>1, <1>2 DEF Inv
<1>6. IsAccountedFor(run)' /\ ValidDecisionGraph(run)'
  BY <1>3 DEF IsAccountedFor, ApprovalsFollow, ValidDecisionGraph
<1>7. (\A x \in Threads : proposals[x] # NoProposal => IsAccountedFor(proposals[x]))'
  BY <1>5
<1> QED
  BY <1>4, <1>6, <1>7 DEF Inv

(* The conjuncts of the invariant other than the types do not depend on    *)
(* the constitution file.                                                  *)
LEMMA InvIsKeptOn ==
  ASSUME Inv, run' = run, proposals' = proposals, text' \in Texts
  PROVE  Inv'
<1>1. TypeOK'
  BY DEF Inv, TypeOK
<1>2. (IsAccountedFor(run) /\ ValidDecisionGraph(run))'
  <2>1. IsAccountedFor(run) /\ ValidDecisionGraph(run)
    BY DEF Inv
  <2> QED
    BY <2>1
<1>3. (\A t \in Threads : proposals[t] # NoProposal => IsAccountedFor(proposals[t]))'
  BY DEF Inv
<1> QED
  BY <1>1, <1>2, <1>3 DEF Inv

(* The invariant holds in every reachable state.                           *)
LEMMA InvIsInductive == Spec => []Inv
<1>1. Init => Inv
  <2> SUFFICES ASSUME Init
               PROVE  Inv
    OBVIOUS
  <2>1. TypeOK
    BY InitialRunsAreTyped DEF Init, TypeOK
  <2>2. \A t \in Threads : proposals[t] = NoProposal
    BY DEF Init
  <2> QED
    BY <2>1, <2>2, NewRunIsAccountedFor DEF Init, Inv
<1>2. Inv /\ [Next]_vars => Inv'
  <2> SUFFICES ASSUME Inv, [Next]_vars
               PROVE  Inv'
    OBVIOUS
  <2>1. CASE UNCHANGED vars
    <3>1. text' \in Texts
      BY <2>1 DEF vars, Inv, TypeOK
    <3> QED
      BY <2>1, <3>1, InvIsKeptOn DEF vars
  <2>2. CASE AmendPolicy
    BY <2>2, InvIsKeptOn DEF AmendPolicy
  <2>3. ASSUME NEW t \in Threads,
               \/ BuildResearch(t) \/ RunValueManager(t) \/ Decide(t)
               \/ ExecutePaperTrade(t) \/ RefreshPrices(t) \/ SaveTransition(t)
        PROVE  Inv'
    BY <2>3, BuildResearchKeepsInv, RunValueManagerKeepsInv, DecideKeepsInv,
       ExecutePaperTradeKeepsInv, RefreshPricesKeepsInv, SaveTransitionKeepsInv
  <2> QED
    BY <2>1, <2>2, <2>3 DEF Next
<1> QED
  BY <1>1, <1>2, PTL DEF Spec

(***************************************************************************)
(* The run, what threads are about to save and the policy have their types *)
(* in every reachable state: in particular no portfolio has negative cash  *)
(* or quantities, whatever was journaled and when it is executed.          *)
(***************************************************************************)
THEOREM TypeCorrect == Spec => []TypeOK
<1>1. Inv => TypeOK
  BY DEF Inv
<1> QED
  BY <1>1, InvIsInductive, PTL

(***************************************************************************)
(* No trade without validation, approval and revalidation, for any number  *)
(* of threads with stale reads: every change of the managed portfolio is   *)
(* one covered execution, and each cycle has at most one.                  *)
(***************************************************************************)
THEOREM TradesAreCovered == Spec => []ExecutionsAreCovered
<1>1. Inv => ExecutionsAreCovered
  BY DEF Inv, IsAccountedFor, ValidDecisionGraph, ExecutionsAreCovered
<1> QED
  BY <1>1, InvIsInductive, PTL

(***************************************************************************)
(* The audit of an executed cycle finds the one check that authorized it,  *)
(* whatever attempts failed before.                                        *)
(***************************************************************************)
THEOREM AuditsSucceed == Spec => []ExecutedCyclesCanBeAudited
<1>1. Inv => ExecutedCyclesCanBeAudited
  <2> SUFFICES ASSUME Inv, NEW e \in run.executions
               PROVE  CanBeAudited(run, e.cycle)
    BY DEF ExecutedCyclesCanBeAudited
  <2>1. /\ \A a, b \in run.checks : a.id = b.id => a = b
        /\ OnePerCycle(run.executions)
        /\ \A x \in run.executions : \E check \in run.checks : Authorizes(check, x)
    BY DEF Inv, ValidDecisionGraph
  <2>2. \A x \in Of(run.executions, e.cycle) : x = e
    BY <2>1 DEF Of, OnePerCycle
  <2>3. PICK check \in run.checks : Authorizes(check, e)
    BY <2>1
  <2>4. e \in Of(run.executions, e.cycle)
    BY DEF Of
  <2>5. AuditedChecks(run, e.cycle) = {check}
    BY <2>1, <2>2, <2>3, <2>4 DEF AuditedChecks, Of, Authorizes
  <2>6. Cardinality(AuditedChecks(run, e.cycle)) <= 1
    BY <2>5, FS_Singleton
  <2> QED
    BY <2>2, <2>3, <2>5, <2>6 DEF CanBeAudited, Authorizes
<1> QED
  BY <1>1, InvIsInductive, PTL

-----------------------------------------------------------------------------
(* What a proposal adds was right when it was computed, and what it was    *)
(* computed from is still part of the run.  The store takes it only if the *)
(* run is no more than that.                                               *)

(* The facts p was computed from have not gone.                            *)
IsWithin(p, r) ==
  /\ RequireHistoryPrefix(p.history, r.history)
  /\ p.quotes \subseteq r.quotes /\ p.research \subseteq r.research

IsFresh(p, j) ==
  /\ j.book = Managed(p)
  /\ \E b \in p.research : b.cycle = j.cycle /\ IsAuthoritative(b, p)
  /\ \A q \in QuotesFor(p, j) : q.at <= j.quote.at

IsReady(r, e) ==
  \E j \in r.journals, a \in r.approvals :
    /\ j.cycle = e.cycle /\ a.cycle = e.cycle
    /\ a.decision = "APPROVED" /\ IsPassedBuy(j)
    /\ e.quote \in r.quotes /\ e.quote.security = j.quote.security
    /\ e.quote.at >= a.at

IsPending(p, r) ==
  /\ \A j \in p.journals \ r.journals : IsWithin(p, r) /\ IsFresh(p, j)
  /\ \A e \in p.executions \ r.executions : IsReady(r, e)

Pending == \A t \in Threads : IsPending(proposals[t], run)

(* A history begins with all that began one it begins with.                *)
LEMMA PrefixesAreTransitive ==
  ASSUME NEW X, NEW a \in Seq(X), NEW b \in Seq(X), NEW c \in Seq(X),
         RequireHistoryPrefix(a, b), RequireHistoryPrefix(b, c)
  PROVE  RequireHistoryPrefix(a, c)
<1>1. Len(a) \in Nat /\ Len(b) \in Nat /\ Len(c) \in Nat
  OBVIOUS
<1>2. \A i \in 1..Len(a) : i \in 1..Len(b)
  BY <1>1 DEF RequireHistoryPrefix
<1> QED
  BY <1>1, <1>2 DEF RequireHistoryPrefix

(* A save by another thread leaves what is pending right.                  *)
LEMMA PendingIsKept ==
  ASSUME NEW p \in Runs, NEW r \in Runs, NEW s \in Runs,
         IsPending(p, r), Accepts(r, s)
  PROVE  IsPending(p, s)
<1>1. /\ RequireHistoryPrefix(r.history, s.history)
      /\ r.quotes \subseteq s.quotes /\ r.research \subseteq s.research
      /\ r.journals \subseteq s.journals /\ r.approvals \subseteq s.approvals
      /\ r.executions \subseteq s.executions
  BY DEF Accepts, RequireImmutableRecords
<1>2. IsWithin(p, r) => IsWithin(p, s)
  <2>1. /\ p.history \in Seq(Snapshots) /\ r.history \in Seq(Snapshots)
        /\ s.history \in Seq(Snapshots)
    BY DEF Runs
  <2> QED
    BY <2>1, <1>1, PrefixesAreTransitive DEF IsWithin
<1>3. \A e : IsReady(r, e) => IsReady(s, e)
  BY <1>1 DEF IsReady
<1> QED
  BY <1>1, <1>2, <1>3 DEF IsPending

(* A command whose additions are right keeps all that is pending right.    *)
LEMMA ProposalKeepsPending ==
  ASSUME Inv, Pending, NEW t \in Threads, NEW p, Proposes(t, p),
         IsPending(p, run)
  PROVE  Pending'
<1>1. /\ proposals' = [proposals EXCEPT ![t] = p] /\ run' = run
      /\ proposals \in [Threads -> Runs]
  BY DEF Inv, TypeOK, Proposes
<1>2. \A x \in Threads : proposals'[x] = IF x = t THEN p ELSE proposals[x]
  BY <1>1
<1>3. \A x \in Threads : IsPending(proposals'[x], run)
  BY <1>2 DEF Pending
<1> QED
  BY <1>1, <1>3 DEF Pending

(* The commands that neither journal nor trade add nothing of the kind.    *)
LEMMA OthersKeepPending ==
  ASSUME Inv, Pending, NEW t \in Threads,
         BuildResearch(t) \/ Decide(t) \/ RefreshPrices(t)
  PROVE  Pending'
<1>1. run \in Runs
  BY DEF Inv, TypeOK
<1>2. \A p : p.journals = run.journals /\ p.executions = run.executions
          => IsPending(p, run)
  BY DEF IsPending
<1>3. \E p : Proposes(t, p) /\ p.journals = run.journals
                            /\ p.executions = run.executions
  <2>1. CASE BuildResearch(t)
    <3>1. PICK x : Proposes(t, [run EXCEPT !.research = @ \cup {x}])
      BY <2>1 DEF BuildResearch
    <3> DEFINE p == [run EXCEPT !.research = @ \cup {x}]
    <3>2. p.journals = run.journals /\ p.executions = run.executions
      BY <1>1 DEF Runs
    <3> QED
      BY <3>1, <3>2
  <2>2. CASE Decide(t)
    <3>1. PICK x : Proposes(t, [run EXCEPT !.approvals = @ \cup {x}])
      BY <2>2 DEF Decide
    <3> DEFINE p == [run EXCEPT !.approvals = @ \cup {x}]
    <3>2. p.journals = run.journals /\ p.executions = run.executions
      BY <1>1 DEF Runs
    <3> QED
      BY <3>1, <3>2
  <2>3. CASE RefreshPrices(t)
    <3>1. PICK x : Proposes(t, [run EXCEPT !.quotes = @ \cup x])
      BY <2>3 DEF RefreshPrices
    <3> DEFINE p == [run EXCEPT !.quotes = @ \cup x]
    <3>2. p.journals = run.journals /\ p.executions = run.executions
      BY <1>1 DEF Runs
    <3> QED
      BY <3>1, <3>2
  <2> QED
    BY <2>1, <2>2, <2>3
<1> QED
  BY <1>2, <1>3, ProposalKeepsPending

(* The entry is fresh with respect to the run it was computed from.        *)
LEMMA RunValueManagerKeepsPending ==
  ASSUME Inv, Pending, NEW t \in Threads, RunValueManager(t)
  PROVE  Pending'
<1>1. PICK b \in run.research, recommendation \in Recommendations, at \in Times :
        \E today \in LocalDates(at) :
          /\ IsAuthoritative(b, run)
          /\ Proposes(t, [run EXCEPT !.journals =
               @ \cup {Journal(t, b.cycle, recommendation, at, today)}])
  BY DEF RunValueManager
<1>2. PICK today \in LocalDates(at) :
        /\ IsAuthoritative(b, run)
        /\ Proposes(t, [run EXCEPT !.journals =
             @ \cup {Journal(t, b.cycle, recommendation, at, today)}])
  BY <1>1
<1> DEFINE packet  == PacketFor(Packets[b.cycle], recommendation)
           quote   == JournalQuote(run, recommendation, packet, at, today)
           journal == Journal(t, b.cycle, recommendation, at, today)
           p       == [run EXCEPT !.journals = @ \cup {journal}]
<1>3. run \in Runs
  BY DEF Inv, TypeOK
<1>4. /\ journal.cycle = b.cycle /\ journal.at = at
      /\ journal.recommendation = recommendation
      /\ journal.book = Managed(run) /\ journal.quote = quote
  BY DEF Journal
<1>5. Proposes(t, p)
  BY <1>2
<1> HIDE DEF journal
<1>6. /\ p.history = run.history /\ p.quotes = run.quotes
      /\ p.research = run.research /\ p.executions = run.executions
      /\ p.journals = run.journals \cup {journal}
  BY <1>3 DEF Runs
<1> HIDE DEF p
<1>7. IsWithin(p, run)
  BY <1>3, <1>6 DEF IsWithin, RequireHistoryPrefix, Runs
<1>8. \A q \in QuotesFor(p, journal) : q.at <= quote.at
  <2>1. CASE recommendation.action = "HOLD"
    BY <2>1, <1>4 DEF QuotesFor
  <2>2. CASE recommendation.action # "HOLD"
    <3> DEFINE eligible == EligibleQuotes(run, packet, at, today)
    <3>1. QuotesFor(p, journal) \subseteq eligible
      BY <2>2, <1>4, <1>6 DEF QuotesFor, EligibleQuotes
    <3>2. eligible \in SUBSET Quotes
      BY <1>3 DEF EligibleQuotes, Runs
    <3>3. eligible # {} => quote = LatestOf(eligible)
      BY <2>2 DEF JournalQuote
    <3> HIDE DEF eligible, quote
    <3> QED
      BY <3>1, <3>2, <3>3, LatestOfQuotes
  <2> QED
    BY <2>1, <2>2
<1>9. IsFresh(p, journal)
  <2>1. Managed(p) = Managed(run)
    BY <1>6 DEF Managed
  <2>2. IsAuthoritative(b, p) /\ b \in p.research
    BY <1>2, <1>6 DEF IsAuthoritative
  <2> QED
    BY <2>1, <2>2, <1>4, <1>8 DEF IsFresh
<1>10. IsPending(p, run)
  BY <1>6, <1>7, <1>9 DEF IsPending
<1> QED
  BY <1>5, <1>10, ProposalKeepsPending

(* The trade was READY in the run it was computed from.                    *)
LEMMA ExecutePaperTradeKeepsPending ==
  ASSUME Inv, Pending, NEW t \in Threads, ExecutePaperTrade(t)
  PROVE  Pending'
<1>1. PICK j \in run.journals, at \in Times, id \in FreshChecks :
        \E a \in Of(run.approvals, j.cycle), today \in LocalDates(at) :
          LET eligible == ExecutionQuotes(run, j, a, at)
              check    == CheckNow(id, j, LatestOf(eligible), at, today)
              e        == ExecutionOf(check, j)
          IN /\ MayExecute(run, j, a)
             /\ eligible # {}
             /\ IF PassedCheck(check) /\ CanBeRecorded(run, e)
                THEN Proposes(t, WithExecution(WithCheck(run, check), e))
                ELSE Proposes(t, WithCheck(run, check))
  BY DEF ExecutePaperTrade
<1>2. PICK a \in Of(run.approvals, j.cycle), today \in LocalDates(at) :
        LET eligible == ExecutionQuotes(run, j, a, at)
            check    == CheckNow(id, j, LatestOf(eligible), at, today)
            e        == ExecutionOf(check, j)
        IN /\ MayExecute(run, j, a)
           /\ eligible # {}
           /\ IF PassedCheck(check) /\ CanBeRecorded(run, e)
              THEN Proposes(t, WithExecution(WithCheck(run, check), e))
              ELSE Proposes(t, WithCheck(run, check))
  BY <1>1
<1> DEFINE quote == LatestOf(ExecutionQuotes(run, j, a, at))
           check == CheckNow(id, j, quote, at, today)
           e     == ExecutionOf(check, j)
<1>3. run \in Runs
  BY DEF Inv, TypeOK
<1>4. a \in run.approvals /\ a.cycle = j.cycle
  BY DEF Of
<1>5. /\ quote \in run.quotes /\ quote.security = j.quote.security
      /\ quote.at \in Nat /\ a.at \in Nat /\ a.at <= quote.at
  <2>1. /\ quote \in run.quotes /\ quote \in Quotes
        /\ quote.security = j.quote.security /\ a.at <= quote.at
    BY <1>2, <1>3, <1>4, ExecutionQuotesAreLater
  <2>2. a.at \in Nat
    BY <1>3, <1>4, TradingAssumption DEF Runs, Approvals, Times
  <2>3. quote.at \in Nat
    BY <2>1, TradingAssumption DEF Quotes, Times
  <2> QED
    BY <2>1, <2>2, <2>3
<1>6. /\ MayExecute(run, j, a)
      /\ \/ Proposes(t, WithExecution(WithCheck(run, check), e))
         \/ Proposes(t, WithCheck(run, check))
  BY <1>2
<1>7. e.cycle = j.cycle /\ e.quote = quote
  BY DEF ExecutionOf, CheckNow
<1> HIDE DEF quote, check, e
<1>8. IsReady(run, e)
  <2>1. a.decision = "APPROVED" /\ IsPassedBuy(j)
    BY <1>6 DEF MayExecute
  <2> QED
    BY <2>1, <1>4, <1>5, <1>7 DEF IsReady
<1>9. /\ WithCheck(run, check).journals = run.journals
      /\ WithCheck(run, check).executions = run.executions
      /\ WithExecution(WithCheck(run, check), e).journals = run.journals
      /\ WithExecution(WithCheck(run, check), e).executions
           = run.executions \cup {e}
  BY <1>3 DEF WithCheck, WithExecution, Runs
<1>10. /\ IsPending(WithCheck(run, check), run)
       /\ IsPending(WithExecution(WithCheck(run, check), e), run)
  BY <1>8, <1>9 DEF IsPending
<1> QED
  BY <1>6, <1>10, ProposalKeepsPending

(* A commit leaves what the other threads have pending right.              *)
LEMMA SaveTransitionKeepsPending ==
  ASSUME Inv, Pending, NEW t \in Threads, SaveTransition(t)
  PROVE  Pending'
<1>1. /\ (Accepts(run, proposals[t]) /\ run' = proposals[t]) \/ run' = run
      /\ proposals' = [proposals EXCEPT ![t] = NoProposal]
  BY DEF SaveTransition
<1>2. run \in Runs /\ proposals \in [Threads -> Runs]
  BY DEF Inv, TypeOK
<1>3. \A x \in Threads : proposals'[x] = IF x = t THEN NoProposal ELSE proposals[x]
  BY <1>1, <1>2
<1>4. NoProposal.journals = {} /\ NoProposal.executions = {}
  BY DEF NoProposal, NewRun
<1>5. IsPending(NoProposal, run')
  BY <1>4 DEF IsPending
<1>6. \A x \in Threads : IsPending(proposals[x], run')
  <2>1. \A x \in Threads : proposals[x] \in Runs /\ IsPending(proposals[x], run)
    BY <1>2 DEF Pending
  <2> QED
    BY <2>1, <1>1, <1>2, PendingIsKept
<1>7. \A x \in Threads : IsPending(proposals'[x], run')
  BY <1>3, <1>5, <1>6
<1>8. Pending' <=> \A x \in Threads : IsPending(proposals'[x], run')
  BY DEF Pending
<1> QED
  BY <1>7, <1>8

(* It holds in every reachable state.                                      *)
LEMMA PendingIsInductive == Spec => []Pending
<1>1. Init => Pending
  <2>1. NoProposal.journals = {} /\ NoProposal.executions = {}
    BY DEF NoProposal, NewRun
  <2>2. IsPending(NoProposal, run)
    BY <2>1 DEF IsPending
  <2> QED
    BY <2>2 DEF Init, Pending
<1>2. Inv /\ Pending /\ [Next]_vars => Pending'
  <2> SUFFICES ASSUME Inv, Pending, [Next]_vars
               PROVE  Pending'
    OBVIOUS
  <2>1. CASE UNCHANGED vars
    BY <2>1 DEF vars, Pending
  <2>2. CASE AmendPolicy
    BY <2>2 DEF AmendPolicy, Pending
  <2>3. ASSUME NEW t \in Threads,
               \/ BuildResearch(t) \/ RunValueManager(t) \/ Decide(t)
               \/ ExecutePaperTrade(t) \/ RefreshPrices(t) \/ SaveTransition(t)
        PROVE  Pending'
    BY <2>3, OthersKeepPending, RunValueManagerKeepsPending,
       ExecutePaperTradeKeepsPending, SaveTransitionKeepsPending
  <2> QED
    BY <2>1, <2>2, <2>3 DEF Next
<1> QED
  BY <1>1, <1>2, InvIsInductive, PTL DEF Spec

-----------------------------------------------------------------------------
(* What a commit adds *)

(* Only a commit changes the run, and it makes it the proposal.            *)
LEMMA OnlySavesChangeTheRun ==
  ASSUME [Next]_vars, run' # run
  PROVE  \E t \in Threads : Accepts(run, proposals[t]) /\ run' = proposals[t]
<1>1. CASE UNCHANGED vars
  BY <1>1 DEF vars
<1>2. CASE AmendPolicy
  BY <1>2 DEF AmendPolicy
<1>3. ASSUME NEW t \in Threads,
             \/ BuildResearch(t) \/ RunValueManager(t) \/ Decide(t)
             \/ ExecutePaperTrade(t) \/ RefreshPrices(t)
      PROVE  run' = run
  BY <1>3 DEF BuildResearch, RunValueManager, Decide, ExecutePaperTrade,
              RefreshPrices, Proposes
<1>4. ASSUME NEW t \in Threads, SaveTransition(t)
      PROVE  \E x \in Threads : Accepts(run, proposals[x]) /\ run' = proposals[x]
  BY <1>4 DEF SaveTransition
<1> QED
  BY <1>1, <1>2, <1>3, <1>4 DEF Next

(***************************************************************************)
(* However long the manager took and whatever was saved meanwhile, a       *)
(* recommendation is journaled only on the portfolio, the research and the *)
(* quotes that are current at that moment.                                 *)
(***************************************************************************)
THEOREM JournalsAreCurrent == Spec => JournaledOnCurrentFacts
<1>1. Inv /\ Pending /\ [Next]_vars =>
        \A j \in run'.journals \ run.journals :
          /\ j.book = Managed(run)
          /\ \E b \in run.research : b.cycle = j.cycle /\ IsAuthoritative(b, run)
          /\ \A q \in QuotesFor(run, j) : q.at <= j.quote.at
  <2> SUFFICES ASSUME Inv, Pending, [Next]_vars,
                      NEW j \in run'.journals \ run.journals
               PROVE  /\ j.book = Managed(run)
                      /\ \E b \in run.research :
                           b.cycle = j.cycle /\ IsAuthoritative(b, run)
                      /\ \A q \in QuotesFor(run, j) : q.at <= j.quote.at
    OBVIOUS
  <2>1. PICK t \in Threads : Accepts(run, proposals[t]) /\ run' = proposals[t]
    BY OnlySavesChangeTheRun
  <2> DEFINE p == proposals[t]
  <2>2. IsWithin(p, run) /\ IsFresh(p, j)
    BY <2>1 DEF Pending, IsPending
  <2>3. /\ RequireHistoryPrefix(run.history, p.history)
        /\ run.quotes \subseteq p.quotes /\ run.research \subseteq p.research
    BY <2>1 DEF Accepts, RequireImmutableRecords
  <2>4. run \in Runs /\ p \in Runs /\ Len(run.history) > 0
    BY DEF Inv, TypeOK, IsAccountedFor
  <2> HIDE DEF p
  <2>5. p.quotes = run.quotes /\ p.research = run.research
    BY <2>2, <2>3 DEF IsWithin
  <2>6. Managed(p) = Managed(run)
    <3>1. /\ Len(run.history) \in Nat /\ Len(p.history) \in Nat
      BY <2>4 DEF Runs
    <3>2. Len(p.history) = Len(run.history)
      BY <3>1, <2>2, <2>3 DEF IsWithin, RequireHistoryPrefix
    <3> QED
      BY <3>1, <3>2, <2>3, <2>4 DEF RequireHistoryPrefix, Managed, Newest
  <2>7. QuotesFor(p, j) = QuotesFor(run, j)
    BY <2>5 DEF QuotesFor, EligibleQuotes
  <2>8. \A b : IsAuthoritative(b, p) <=> IsAuthoritative(b, run)
    BY <2>5 DEF IsAuthoritative
  <2> QED
    BY <2>2, <2>5, <2>6, <2>7, <2>8 DEF IsFresh
<1> QED
  BY <1>1, InvIsInductive, PendingIsInductive, PTL DEF Spec, JournaledOnCurrentFacts

(***************************************************************************)
(* A cycle is only ever executed from a run in which the API shows it as   *)
(* READY, although the command never asks for the readiness.               *)
(***************************************************************************)
THEOREM ExecutionsWereReady == Spec => OnlyReadyCyclesAreExecuted
<1>1. Inv /\ Pending /\ [Next]_vars =>
        \A e \in run'.executions \ run.executions :
          \E j \in run.journals : j.cycle = e.cycle /\ Readiness(run, j) = "READY"
  <2> SUFFICES ASSUME Inv, Pending, [Next]_vars,
                      NEW e \in run'.executions \ run.executions
               PROVE  \E j \in run.journals :
                        j.cycle = e.cycle /\ Readiness(run, j) = "READY"
    OBVIOUS
  <2>1. PICK t \in Threads : Accepts(run, proposals[t]) /\ run' = proposals[t]
    BY OnlySavesChangeTheRun
  <2>2. IsReady(run, e)
    BY <2>1 DEF Pending, IsPending
  <2>3. PICK j \in run.journals, a \in run.approvals :
          /\ j.cycle = e.cycle /\ a.cycle = e.cycle
          /\ a.decision = "APPROVED" /\ IsPassedBuy(j)
          /\ e.quote \in run.quotes /\ e.quote.security = j.quote.security
          /\ e.quote.at >= a.at
    BY <2>2 DEF IsReady
  <2>4. Of(run.executions, j.cycle) = {}
    <3>1. OnePerCycle(run'.executions) /\ run.executions \subseteq run'.executions
      BY <2>1 DEF Accepts, RequireImmutableRecords, ValidDecisionGraph
    <3> QED
      BY <3>1, <2>3 DEF OnePerCycle, Of
  <2>5. a \in {x \in Of(run.approvals, j.cycle) : x.decision = "APPROVED"}
    BY <2>3 DEF Of
  <2>6. j.recommendation.action # "HOLD" /\ j.failed = {}
    BY <2>3 DEF IsPassedBuy
  <2>7. Readiness(run, j) = "READY"
    BY <2>3, <2>4, <2>5, <2>6 DEF Readiness
  <2> QED
    BY <2>3, <2>7
<1> QED
  BY <1>1, InvIsInductive, PendingIsInductive, PTL
  DEF Spec, OnlyReadyCyclesAreExecuted

-----------------------------------------------------------------------------
(* The target *)

(* The fields of a portfolio.                                              *)
LEMMA BookFields ==
  ASSUME NEW book \in Books, NEW s \in Securities
  PROVE  /\ book.cash \in Nat /\ book.held[s] \in Positions
         /\ book.held[s].quantity \in Nat /\ book.held[s].cost \in Nat
         /\ book.held[s].price \in Nat
BY DEF Books, Positions

(* A portfolio is worth a whole amount.                                    *)
LEMMA ValueIsNat ==
  ASSUME NEW book \in Books, NEW s \in Securities, NEW price \in Nat
  PROVE  ValueAt(book, s, price) \in Nat
<1> DEFINE others == Securities \ {s}
           f == [x \in others |-> MarketValue(book, x)]
<1>1. \A x \in others : f[x] \in Nat
  BY BookFields DEF MarketValue
<1>2. IsFiniteSet(others) /\ DOMAIN f = others
  BY UniverseAssumption, FS_Subset
<1> HIDE DEF f, others
<1>3. SumFunction(f) \in Nat
  BY <1>1, <1>2, SumNat DEF SumFunction
<1>4. ValueAt(book, s, price) = book.cash + book.held[s].quantity * price + SumFunction(f)
  BY DEF ValueAt, f, others
<1>5. book.held[s].quantity * price \in Nat
  BY BookFields
<1> QED
  BY <1>3, <1>4, <1>5, BookFields

(* A purchase the cash covers is the target, less the rounding.            *)
IsAtTarget(before, after, s, weight, price) ==
  LET target == ValueAt(before, s, price) * weight
      value  == 100 * after.held[s].quantity * price
  IN value <= target /\ target < value + 100 * price

LEMMA FeasiblePurchaseReachesTheTarget ==
  ASSUME NEW book \in Books, NEW s \in Securities, NEW weight \in Nat,
         NEW price \in Nat \ {0},
         Required(book, s, weight, price) <= 100 * book.cash,
         Purchasable(book, s, weight, price) # 0
  PROVE  IsAtTarget(book, Bought(book, s, weight, price), s, weight, price)
<1> DEFINE cash    == book.cash
           held    == book.held[s].quantity
           target  == ValueAt(book, s, price) * weight
           current == 100 * held * price
           need    == Required(book, s, weight, price)
           n       == Purchasable(book, s, weight, price)
           unit    == 100 * price
<1>1. /\ cash \in Nat /\ held \in Nat /\ target \in Nat /\ current \in Nat
      /\ unit \in Nat \ {0}
  <2>1. ValueAt(book, s, price) \in Nat
    BY ValueIsNat
  <2>2. target \in Nat
    BY <2>1
  <2>3. held \in Nat /\ cash \in Nat
    BY BookFields
  <2>4. current \in Nat
    BY <2>3
  <2> QED
    BY <2>2, <2>3, <2>4
<1>2. need = IF target > current THEN target - current ELSE 0
  BY DEF Required
<1>3. n = Min({need, 100 * cash}) \div unit
  BY DEF Purchasable
<1>4. Bought(book, s, weight, price).held[s].quantity = held + n
  BY DEF Bought, Books
<1> HIDE DEF cash, held, target, current, need, n, unit
<1>5. need \in Nat /\ need <= 100 * cash
  BY <1>1, <1>2 DEF need, cash
<1>6. Min({need, 100 * cash}) = need
  BY <1>1, <1>5, MinOfTwo
<1>7. n \in Nat /\ n * unit <= need /\ need < n * unit + unit
  BY <1>1, <1>3, <1>5, <1>6, DivTimes
<1>8. need > 0
  <2>1. n > 0
    BY <1>7 DEF n
  <2>2. n * unit > 0
    BY <2>1, <1>1, <1>7
  <2> QED
    BY <2>2, <1>1, <1>5, <1>7
<1>9. need = target - current
  BY <1>1, <1>2, <1>8
<1>10. 100 * (held + n) * price = current + n * unit
  BY <1>1, <1>7 DEF current, unit
<1>11. n * unit \in Nat
  BY <1>1, <1>7
<1>12. /\ current + n * unit <= target
       /\ target < current + n * unit + unit
  BY <1>1, <1>7, <1>9, <1>11
<1> QED
  BY <1>4, <1>10, <1>12 DEF IsAtTarget, target, unit

(* Quotes cost something, and every trade of the aggregate hit its target. *)
IsOnTarget(r) ==
  /\ \A q \in r.quotes : q.price > 0
  /\ \A e \in r.executions : \A j \in Of(r.journals, e.cycle) :
       IsAtTarget(e.before, e.after, e.quote.security,
                  j.recommendation.weight, e.quote.price)

OnTarget ==
  IsOnTarget(run) /\ \A t \in Threads : IsOnTarget(proposals[t])

LEMMA ProposalKeepsTargets ==
  ASSUME Inv, OnTarget, NEW t \in Threads, NEW p, Proposes(t, p), IsOnTarget(p)
  PROVE  OnTarget'
<1>1. /\ proposals' = [proposals EXCEPT ![t] = p] /\ run' = run
      /\ proposals \in [Threads -> Runs]
  BY DEF Inv, TypeOK, Proposes
<1>2. \A x \in Threads : proposals'[x] = IF x = t THEN p ELSE proposals[x]
  BY <1>1
<1>3. IsOnTarget(run') /\ \A x \in Threads : IsOnTarget(proposals'[x])
  BY <1>1, <1>2 DEF OnTarget
<1> QED
  BY <1>3 DEF OnTarget, IsOnTarget

LEMMA OthersKeepTargets ==
  ASSUME Inv, OnTarget, NEW t \in Threads,
         BuildResearch(t) \/ Decide(t) \/ RefreshPrices(t)
  PROVE  OnTarget'
<1>1. run \in Runs /\ IsOnTarget(run)
  BY DEF Inv, TypeOK, OnTarget
<1>2. \A p : /\ p.journals = run.journals /\ p.executions = run.executions
             /\ \A q \in p.quotes : q.price > 0
          => IsOnTarget(p)
  BY <1>1 DEF IsOnTarget
<1>3. CASE BuildResearch(t)
  <2>1. PICK x : Proposes(t, [run EXCEPT !.research = @ \cup {x}])
    BY <1>3 DEF BuildResearch
  <2> DEFINE p == [run EXCEPT !.research = @ \cup {x}]
  <2>2. /\ p.journals = run.journals /\ p.executions = run.executions
        /\ p.quotes = run.quotes
    BY <1>1 DEF Runs
  <2>3. IsOnTarget(p)
    BY <2>2, <1>1 DEF IsOnTarget
  <2> QED
    BY <2>1, <2>3, ProposalKeepsTargets
<1>4. CASE Decide(t)
  <2>1. PICK x : Proposes(t, [run EXCEPT !.approvals = @ \cup {x}])
    BY <1>4 DEF Decide
  <2> DEFINE p == [run EXCEPT !.approvals = @ \cup {x}]
  <2>2. /\ p.journals = run.journals /\ p.executions = run.executions
        /\ p.quotes = run.quotes
    BY <1>1 DEF Runs
  <2>3. IsOnTarget(p)
    BY <2>2, <1>1 DEF IsOnTarget
  <2> QED
    BY <2>1, <2>3, ProposalKeepsTargets
<1>5. CASE RefreshPrices(t)
  <2>1. PICK feed \in Feeds : Proposes(t, [run EXCEPT !.quotes = @ \cup QuotesOf(feed)])
    BY <1>5 DEF RefreshPrices
  <2> DEFINE p == [run EXCEPT !.quotes = @ \cup QuotesOf(feed)]
  <2>2. /\ p.journals = run.journals /\ p.executions = run.executions
        /\ p.quotes = run.quotes \cup QuotesOf(feed)
    BY <1>1 DEF Runs
  <2>3. \A q \in QuotesOf(feed) : q.price > 0
    <3>1. \A s \in Securities : feed[s].price \in Nat \ {0}
      BY TradingAssumption
    <3>2. \A s \in Securities : feed[s].price > 0
      BY <3>1
    <3> QED
      BY <3>2 DEF QuotesOf
  <2>4. IsOnTarget(p)
    <3> HIDE DEF p
    <3> QED
      BY <2>2, <2>3, <1>1 DEF IsOnTarget
  <2> QED
    BY <2>1, <2>4, ProposalKeepsTargets
<1> QED
  BY <1>3, <1>4, <1>5

(* The cycle of a new journal is not executed: it would have a journal.    *)
LEMMA RunValueManagerKeepsTargets ==
  ASSUME Inv, OnTarget, NEW t \in Threads, RunValueManager(t)
  PROVE  OnTarget'
<1>1. PICK b \in run.research, recommendation \in Recommendations, at \in Times :
        \E today \in LocalDates(at) :
          /\ Of(run.journals, b.cycle) = {}
          /\ Proposes(t, [run EXCEPT !.journals =
               @ \cup {Journal(t, b.cycle, recommendation, at, today)}])
  BY DEF RunValueManager
<1>2. PICK today \in LocalDates(at) :
        /\ Of(run.journals, b.cycle) = {}
        /\ Proposes(t, [run EXCEPT !.journals =
             @ \cup {Journal(t, b.cycle, recommendation, at, today)}])
  BY <1>1
<1> DEFINE journal == Journal(t, b.cycle, recommendation, at, today)
           p       == [run EXCEPT !.journals = @ \cup {journal}]
<1>3. run \in Runs /\ IsOnTarget(run) /\ IsAccountedFor(run)
  BY DEF Inv, TypeOK, OnTarget
<1>4. journal.cycle = b.cycle
  BY DEF Journal
<1>5. Proposes(t, p)
  BY <1>2
<1> HIDE DEF journal
<1>6. /\ p.quotes = run.quotes /\ p.executions = run.executions
      /\ p.journals = run.journals \cup {journal}
  BY <1>3 DEF Runs
<1> HIDE DEF p
<1>7. ASSUME NEW e \in run.executions PROVE e.cycle # b.cycle
  <2>1. PICK j \in run.journals : j.cycle = e.cycle
    BY <1>3 DEF IsAccountedFor, IsCovered
  <2> QED
    BY <1>2, <2>1 DEF Of
<1>8. \A e \in run.executions : Of(p.journals, e.cycle) = Of(run.journals, e.cycle)
  BY <1>4, <1>6, <1>7 DEF Of
<1>9. IsOnTarget(p)
  BY <1>3, <1>6, <1>8 DEF IsOnTarget
<1> QED
  BY <1>5, <1>9, ProposalKeepsTargets

(* System Safety passed on the portfolio that is traded: the cash covers   *)
(* the whole purchase.                                                     *)
LEMMA PassedChecksAreFeasible ==
  ASSUME NEW recommendation, recommendation.action = "BUY",
         NEW packet, NEW quote, NEW at, NEW today, NEW book,
         FailedRules(recommendation, packet, quote, at, today, book) = {},
         Required(book, quote.security, recommendation.weight, quote.price) \in Nat,
         100 * book.cash \in Nat
  PROVE  /\ Required(book, quote.security, recommendation.weight, quote.price)
              <= 100 * book.cash
         /\ Purchasable(book, quote.security, recommendation.weight, quote.price) # 0
<1>1. quote # NoQuote /\ FundingFailures(recommendation, quote, book) = {}
  BY DEF FailedRules
<1>2. ~(Required(book, quote.security, recommendation.weight, quote.price)
          > 100 * book.cash)
  BY <1>1 DEF FundingFailures, RuleIf
<1>3. Purchasable(book, quote.security, recommendation.weight, quote.price) # 0
  BY <1>1 DEF FundingFailures, RuleIf
<1> DEFINE need == Required(book, quote.security, recommendation.weight, quote.price)
           limit == 100 * book.cash
<1>4. need <= limit
  <2> HIDE DEF need, limit
  <2> QED
    BY <1>2 DEF need, limit
<1> QED
  BY <1>3, <1>4

LEMMA ExecutePaperTradeKeepsTargets ==
  ASSUME Inv, OnTarget, NEW t \in Threads, ExecutePaperTrade(t)
  PROVE  OnTarget'
<1>1. PICK j \in run.journals, at \in Times, id \in FreshChecks :
        \E a \in Of(run.approvals, j.cycle), today \in LocalDates(at) :
          LET eligible == ExecutionQuotes(run, j, a, at)
              check    == CheckNow(id, j, LatestOf(eligible), at, today)
              e        == ExecutionOf(check, j)
          IN /\ MayExecute(run, j, a)
             /\ eligible # {}
             /\ IF PassedCheck(check) /\ CanBeRecorded(run, e)
                THEN Proposes(t, WithExecution(WithCheck(run, check), e))
                ELSE Proposes(t, WithCheck(run, check))
  BY DEF ExecutePaperTrade
<1>2. PICK a \in Of(run.approvals, j.cycle), today \in LocalDates(at) :
        LET eligible == ExecutionQuotes(run, j, a, at)
            check    == CheckNow(id, j, LatestOf(eligible), at, today)
            e        == ExecutionOf(check, j)
        IN /\ MayExecute(run, j, a)
           /\ eligible # {}
           /\ IF PassedCheck(check) /\ CanBeRecorded(run, e)
              THEN Proposes(t, WithExecution(WithCheck(run, check), e))
              ELSE Proposes(t, WithCheck(run, check))
  BY <1>1
<1> DEFINE quote  == LatestOf(ExecutionQuotes(run, j, a, at))
           check  == CheckNow(id, j, quote, at, today)
           e      == ExecutionOf(check, j)
           weight == j.recommendation.weight
           book   == Managed(run)
<1>3. /\ run \in Runs /\ IsAccountedFor(run) /\ Len(run.history) > 0
      /\ IsOnTarget(run) /\ OnePerCycle(run.journals)
  BY DEF Inv, TypeOK, IsAccountedFor, OnTarget, ValidDecisionGraph
<1>4. quote \in run.quotes /\ quote \in Quotes
  BY <1>2, <1>3, ExecutionQuotesAreLater DEF Of
<1>5. /\ MayExecute(run, j, a)
      /\ IF PassedCheck(check) /\ CanBeRecorded(run, e)
         THEN Proposes(t, WithExecution(WithCheck(run, check), e))
         ELSE Proposes(t, WithCheck(run, check))
  BY <1>2
<1> HIDE DEF quote
<1>6. /\ check.quote = quote /\ check.book = book /\ check.cycle = j.cycle
      /\ check.failed = FailedRules(j.recommendation,
                                    PacketFor(Packets[j.cycle], j.recommendation),
                                    quote, at, today, book)
  BY DEF CheckNow
<1>7. /\ e.cycle = j.cycle /\ e.quote = quote /\ e.before = book
      /\ e.after = Bought(book, quote.security, weight, quote.price)
  BY <1>6 DEF ExecutionOf
<1> HIDE DEF check, e
<1>8. /\ WithCheck(run, check).journals = run.journals
      /\ WithCheck(run, check).executions = run.executions
      /\ WithCheck(run, check).quotes = run.quotes
      /\ WithExecution(WithCheck(run, check), e).journals = run.journals
      /\ WithExecution(WithCheck(run, check), e).executions
           = run.executions \cup {e}
      /\ WithExecution(WithCheck(run, check), e).quotes = run.quotes
  BY <1>3 DEF WithCheck, WithExecution, Runs
<1>9. CASE PassedCheck(check) /\ CanBeRecorded(run, e)
  <2>1. /\ book \in Books /\ quote.security \in Securities
        /\ quote.price \in Nat \ {0}
    <3>1. quote.price \in Nat /\ quote.price > 0
      BY <1>3, <1>4 DEF IsOnTarget, Quotes
    <3> QED
      BY <1>3, <1>4, <3>1, ManagedIsABook DEF Quotes
  <2>2. j.recommendation.action = "BUY" /\ weight \in Nat
    <3>1. j.recommendation.action = "BUY" /\ j.recommendation \in Recommendations
      BY <1>3, <1>5 DEF MayExecute, IsPassedBuy, Runs, Journals
    <3>2. j.recommendation # Hold
      BY <3>1 DEF Hold
    <3> QED
      BY <3>1, <3>2, TradingAssumption
  <2> HIDE DEF weight, book
  <2>3. /\ Required(book, quote.security, weight, quote.price) \in Nat
        /\ 100 * book.cash \in Nat
    <3> DEFINE s == quote.security
               v == ValueAt(book, s, quote.price) * weight
               c == 100 * book.held[s].quantity * quote.price
    <3>1. ValueAt(book, s, quote.price) \in Nat /\ book.held[s].quantity \in Nat
          /\ book.cash \in Nat
      BY <2>1, ValueIsNat, BookFields
    <3>2. v \in Nat /\ c \in Nat
      BY <2>1, <2>2, <3>1
    <3>3. Required(book, s, weight, quote.price) = IF v > c THEN v - c ELSE 0
      BY DEF Required
    <3> HIDE DEF v, c
    <3> QED
      BY <3>1, <3>2, <3>3
  <2>4. /\ Required(book, quote.security, weight, quote.price) <= 100 * book.cash
        /\ Purchasable(book, quote.security, weight, quote.price) # 0
    <3> DEFINE packet == PacketFor(Packets[j.cycle], j.recommendation)
    <3>1. FailedRules(j.recommendation, packet, quote, at, today, book) = {}
      BY <1>6, <1>9 DEF PassedCheck
    <3>2. weight = j.recommendation.weight
      BY DEF weight
    <3> HIDE DEF packet
    <3> QED
      BY <2>2, <2>3, <3>1, <3>2, PassedChecksAreFeasible
  <2>5. IsAtTarget(e.before, e.after, e.quote.security, weight, e.quote.price)
    BY <1>7, <2>1, <2>2, <2>4, FeasiblePurchaseReachesTheTarget DEF weight, book
  <2>6. Of(run.journals, e.cycle) = {j}
    BY <1>3, <1>7 DEF Of, OnePerCycle
  <2>7. IsOnTarget(WithExecution(WithCheck(run, check), e))
    BY <1>3, <1>8, <2>5, <2>6 DEF IsOnTarget, weight
  <2> QED
    BY <1>5, <1>9, <2>7, ProposalKeepsTargets
<1>10. CASE ~(PassedCheck(check) /\ CanBeRecorded(run, e))
  <2>1. IsOnTarget(WithCheck(run, check))
    BY <1>3, <1>8 DEF IsOnTarget
  <2> QED
    BY <1>5, <1>10, <2>1, ProposalKeepsTargets
<1> QED
  BY <1>9, <1>10

LEMMA SaveTransitionKeepsTargets ==
  ASSUME Inv, OnTarget, NEW t \in Threads, SaveTransition(t)
  PROVE  OnTarget'
<1>1. /\ run' = proposals[t] \/ run' = run
      /\ proposals' = [proposals EXCEPT ![t] = NoProposal]
      /\ proposals \in [Threads -> Runs]
  BY DEF SaveTransition, Inv, TypeOK
<1>2. IsOnTarget(NoProposal)
  BY DEF NoProposal, NewRun, IsOnTarget
<1>3. \A x \in Threads : proposals'[x] = IF x = t THEN NoProposal ELSE proposals[x]
  BY <1>1
<1>4. IsOnTarget(run') /\ \A x \in Threads : IsOnTarget(proposals'[x])
  BY <1>1, <1>2, <1>3 DEF OnTarget
<1> QED
  BY <1>4 DEF OnTarget, IsOnTarget

LEMMA OnTargetIsInductive == Spec => []OnTarget
<1>1. Init => OnTarget
  <2>1. IsOnTarget(NewRun) /\ IsOnTarget(NoProposal)
    BY DEF NoProposal, NewRun, IsOnTarget
  <2> QED
    BY <2>1 DEF Init, OnTarget
<1>2. Inv /\ OnTarget /\ [Next]_vars => OnTarget'
  <2> SUFFICES ASSUME Inv, OnTarget, [Next]_vars
               PROVE  OnTarget'
    OBVIOUS
  <2>1. CASE run' = run /\ proposals' = proposals
    <3>1. IsOnTarget(run') /\ \A t \in Threads : IsOnTarget(proposals'[t])
      BY <2>1 DEF OnTarget
    <3> QED
      BY <3>1 DEF OnTarget, IsOnTarget
  <2>2. CASE UNCHANGED vars
    BY <2>1, <2>2 DEF vars
  <2>3. CASE AmendPolicy
    BY <2>1, <2>3 DEF AmendPolicy
  <2>4. ASSUME NEW t \in Threads,
               \/ BuildResearch(t) \/ RunValueManager(t) \/ Decide(t)
               \/ ExecutePaperTrade(t) \/ RefreshPrices(t) \/ SaveTransition(t)
        PROVE  OnTarget'
    BY <2>4, OthersKeepTargets, RunValueManagerKeepsTargets,
       ExecutePaperTradeKeepsTargets, SaveTransitionKeepsTargets
  <2> QED
    BY <2>2, <2>3, <2>4 DEF Next
<1> QED
  BY <1>1, <1>2, InvIsInductive, PTL DEF Spec

(***************************************************************************)
(* The target weight is met to the unit although the trade is computed on  *)
(* a portfolio the recommendation was not made for: only a purchase the    *)
(* cash covers in full is executed.                                        *)
(***************************************************************************)
THEOREM TargetsAreReached == Spec => []ExecutionsReachTheTarget
<1>1. OnTarget => ExecutionsReachTheTarget
  BY DEF OnTarget, IsOnTarget, IsAtTarget, ExecutionsReachTheTarget
<1> QED
  BY <1>1, OnTargetIsInductive, PTL
=============================================================================
