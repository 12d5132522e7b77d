---------------------------- MODULE DecisionCycle ----------------------------
(***************************************************************************)
(* The managed decision cycle: research is persisted, the Value Manager    *)
(* decides, the AI reviewer comments, a human approves or rejects, an      *)
(* approved BUY is executed on paper, a rejected cycle may be revised.     *)
(*                                                                         *)
(* Each command is served by a thread of its own: it reads the run, works  *)
(* on that snapshot - for the manager and the reviewer through a call to a *)
(* language model - and saves its proposal later, when the run may have    *)
(* moved on.  A crash between the two is a save that never happens.        *)
(*                                                                         *)
(* What an execution does to the portfolio, and which price it needs, is   *)
(* in PairedLedger; here its safety check may pass or fail.                *)
(***************************************************************************)
EXTENDS LocalRunStore

CONSTANTS
  Threads,     \* threads serving commands
  Cycles,      \* decision cycle ids (uuid4), one per research batch
  Checks,      \* execution check ids (uuid4), also naming the trade
  Answers,     \* what the manager's answers may come to
  MaxTime      \* bound on the time stamps clients and clocks supply

ASSUME IdAssumption == NoId \notin Cycles \cup Checks \cup Threads

(* HOLD always passes System Safety and has no trade; a BUY that passes    *)
(* carries a ValidatedTrade.                                               *)
Verdicts == {"HOLD", "BUY_PASSED", "BUY_FAILED"}

ASSUME AnswerAssumption == Answers \subseteq Verdicts

ASSUME TimeAssumption == MaxTime \in Nat \ {0}

VARIABLES
  run,         \* the persisted aggregate
  proposals    \* per thread, the aggregate it is about to save

vars == <<run, proposals>>

Times == 1..MaxTime

Batches    == [cycle : Cycles, created : Times, parent : Cycles \cup {NoId}]
(* "by": two manager (or reviewer) answers to one question are different.  *)
Journals   == [cycle : Cycles, verdict : Verdicts, at : Times, by : Threads]
Reviews    == [cycle : Cycles, by : Threads]
Approvals  == [cycle : Cycles, decision : {"APPROVED", "REJECTED"}, at : Times]
CheckSet   == [id : Checks, cycle : Cycles, passed : BOOLEAN]
Executions == [id : Checks, cycle : Cycles]
Entries    == [cycle : Cycles, trade : Checks \cup {NoId}]

Runs == [batches    : SUBSET Batches,
         journals   : SUBSET Journals,
         reviews    : SUBSET Reviews,
         approvals  : SUBSET Approvals,
         checks     : SUBSET CheckSet,
         executions : SUBSET Executions,
         entries    : SUBSET Entries,
         latest     : Cycles \cup {NoId}]   \* cycle of the last journal entry

NewRun == [batches |-> {}, journals |-> {}, reviews |-> {}, approvals |-> {},
           checks |-> {}, executions |-> {}, entries |-> {}, latest |-> NoId]

(* A thread serving no command is about to save the empty run.             *)
Idle(t) == proposals[t] = NewRun

TypeOK == /\ run \in Runs
          /\ proposals \in [Threads -> Runs]

Init == /\ run = NewRun
        /\ proposals = [t \in Threads |-> NewRun]

-----------------------------------------------------------------------------
(* PersistedRunState.validate and the store's rules *)

Of(records, c) == {r \in records : r.cycle = c}

OnePerCycle(records) ==
  \A a, b \in records : a.cycle = b.cycle => a = b

HasCycleIn(records, others) ==
  \A r \in records : Of(others, r.cycle) # {}

(* _validate_decision_graph *)
ValidDecisionGraph(r) ==
  /\ OnePerCycle(r.journals)
  /\ OnePerCycle(r.reviews) /\ HasCycleIn(r.reviews, r.journals)
  /\ OnePerCycle(r.approvals) /\ HasCycleIn(r.approvals, r.journals)
  /\ HasCycleIn(r.checks, r.approvals)
  /\ OnePerCycle(r.executions) /\ HasCycleIn(r.executions, r.approvals)
  /\ \A e \in r.executions :
       [id |-> e.id, cycle |-> e.cycle, passed |-> TRUE] \in r.checks
  /\ OnePerCycle(r.entries) /\ HasCycleIn(r.entries, r.journals)
  /\ \A h \in r.entries : h.trade # NoId
       => [id |-> h.trade, cycle |-> h.cycle] \in r.executions
  /\ \A e \in r.executions : [cycle |-> e.cycle, trade |-> e.id] \in r.entries

(* _require_history_execution_linkage: an entry only ever gains its trade, *)
(* and only if the journal has a validated one.                            *)
RequireHistoryExecutionLinkage(current, proposed) ==
  \A old \in current.entries : \E new \in Of(proposed.entries, old.cycle) :
    \/ new = old
    \/ /\ old.trade = NoId
       /\ new.trade # NoId
       /\ \E j \in Of(current.journals, old.cycle) : j.verdict = "BUY_PASSED"

(* Mutant: the research batches may be replaced. *)
AcceptsOldResearch(current, proposed) ==
  /\ RequireImmutableRecords(current.journals, proposed.journals)
  /\ RequireImmutableRecords(current.approvals, proposed.approvals)
  /\ RequireImmutableRecords(current.executions, proposed.executions)
  /\ RequireHistoryExecutionLinkage(current, proposed)
  /\ ValidDecisionGraph(proposed)

(* Mutant: an approval may be replaced by a later one. *)
AcceptsNewOutcome(current, proposed) ==
  /\ RequireImmutableRecords(current.batches, proposed.batches)
  /\ RequireImmutableRecords(current.journals, proposed.journals)
  /\ ValidDecisionGraph(proposed)

Accepts(current, proposed) ==
  /\ RequireImmutableRecords(current.batches, proposed.batches)
  /\ RequireImmutableRecords(current.journals, proposed.journals)
  /\ RequireImmutableRecords(current.reviews, proposed.reviews)
  /\ RequireImmutableRecords(current.approvals, proposed.approvals)
  /\ RequireImmutableRecords(current.executions, proposed.executions)
  /\ RequireImmutableRecords(current.checks, proposed.checks)
  /\ RequireHistoryExecutionLinkage(current, proposed)
  /\ ValidDecisionGraph(proposed)

-----------------------------------------------------------------------------
(* Commands: from the read to the call of save_transition *)

Proposes(t, proposed) ==
  /\ Idle(t)
  /\ proposals' = [proposals EXCEPT ![t] = proposed]
  /\ UNCHANGED run

Leaves(t) == proposals' = [proposals EXCEPT ![t] = NewRun]

(* uuid4: an id no artifact, saved or about to be, has.                    *)
Fresh(ids) ==
  ids \ UNION {{b.cycle : b \in r.batches} \cup {k.id : k \in r.checks} :
                 r \in {run} \cup {proposals[t] : t \in Threads}}

(* persist_research_cycle.  created_at was taken from the clock before the *)
(* run is read here, so batches may be saved in another order.             *)
BuildResearch(t) ==
  \E c \in Fresh(Cycles), now \in Times :
    Proposes(t, [run EXCEPT !.batches =
                   @ \cup {[cycle |-> c, created |-> now, parent |-> NoId]}])

(* latest_authoritative_research_batch; two latest batches are an error.   *)
LatestBatches(r) ==
  {b \in r.batches : \A other \in r.batches : other.created <= b.created}

(* Mutant: any batch without a decision may be decided. *)
AnyBatch(b, r) == b \in r.batches

IsAuthoritative(b, r) == LatestBatches(r) = {b}

(* RunValueManagerService.run *)
RunValueManager(t) ==
  \E b \in run.batches, verdict \in Answers, at \in Times :
    /\ IsAuthoritative(b, run)
    /\ Of(run.journals, b.cycle) = {}
    /\ at >= b.created
    /\ Proposes(t, [run EXCEPT
         !.journals = @ \cup
           {[cycle |-> b.cycle, verdict |-> verdict, at |-> at, by |-> t]},
         !.latest = b.cycle])

(* ReviewDecisionService.review: before or after the human outcome.        *)
ReviewDecision(t) ==
  \E j \in run.journals :
    /\ j.verdict # "BUY_FAILED"
    /\ Of(run.reviews, j.cycle) = {}
    /\ Proposes(t, [run EXCEPT !.reviews =
                      @ \cup {[cycle |-> j.cycle, by |-> t]}])

(* Mutant: the outcome is not entered into the history. *)
ApprovesOnly(r, approval) == [r EXCEPT !.approvals = @ \cup {approval}]

(* The approval and its history entry are appended together.               *)
WithOutcome(r, approval) ==
  [r EXCEPT !.approvals = @ \cup {approval},
            !.entries   = @ \cup {[cycle |-> approval.cycle, trade |-> NoId]}]

(* DecisionApprovalService.decide *)
Decide(t) ==
  \E j \in run.journals, decision \in {"APPROVED", "REJECTED"}, at \in Times :
    /\ Of(run.approvals, j.cycle) = {}
    /\ decision = "APPROVED" => j.verdict # "BUY_FAILED"
    /\ at >= j.at
    /\ Proposes(t, WithOutcome(run,
         [cycle |-> j.cycle, decision |-> decision, at |-> at]))

AfterDecision(at, j, a) == at > j.at /\ at > a.at

(* Mutant: a second revision of the same cycle is not refused. *)
MayAlwaysRevise(c) == Of(run.executions, c) = {}

MayRevise(c) == /\ Of(run.executions, c) = {}
                /\ \A b \in run.batches : b.parent # c

(* ReviseDecisionCycleService.create *)
ReviseDecision(t) ==
  \E j \in run.journals, at \in Times, child \in Fresh(Cycles) :
    \E a \in Of(run.approvals, j.cycle) :
      /\ a.decision = "REJECTED"
      /\ MayRevise(j.cycle)
      /\ AfterDecision(at, j, a)
      /\ Proposes(t, [run EXCEPT !.batches = @ \cup
           {[cycle |-> child, created |-> at, parent |-> j.cycle]}])

WithCheck(r, id, c, passed) ==
  [r EXCEPT !.checks = @ \cup {[id |-> id, cycle |-> c, passed |-> passed]}]

(* Mutant: the entry names the cycle instead of the trade. *)
WithExecutionOfCycle(r, id, c) ==
  [r EXCEPT !.executions = @ \cup {[id |-> id, cycle |-> c]},
            !.entries = (@ \ Of(@, c)) \cup {[cycle |-> c, trade |-> c]}]

(* _history_with_execution: the trade joins the cycle's entry.             *)
WithExecution(r, id, c) ==
  [r EXCEPT !.executions = @ \cup {[id |-> id, cycle |-> c]},
            !.entries = (@ \ Of(@, c)) \cup {[cycle |-> c, trade |-> id]}]

(* ManagedPaperExecutionService.execute.  A check that fails is saved by   *)
(* itself, and so is one that passes when the trade cannot be carried out. *)
ExecutePaperTrade(t) ==
  \E j \in run.journals, id \in Fresh(Checks), passed \in BOOLEAN :
    \E a \in Of(run.approvals, j.cycle) :
      /\ a.decision = "APPROVED"
      /\ j.verdict = "BUY_PASSED"
      /\ Of(run.executions, j.cycle) = {}
      /\ LET checked == WithCheck(run, id, j.cycle, passed)
         IN \/ Proposes(t, checked)
            \/ passed /\ Proposes(t, WithExecution(checked, id, j.cycle))

(* save_transition commits the proposal or raises; the caller does not     *)
(* retry.                                                                  *)
SaveTransition(t) ==
  /\ ~Idle(t)
  /\ \/ Accepts(run, proposals[t]) /\ run' = proposals[t]
     \/ UNCHANGED run
  /\ Leaves(t)

Next == \E t \in Threads :
          \/ BuildResearch(t) \/ RunValueManager(t) \/ ReviewDecision(t)
          \/ Decide(t) \/ ReviseDecision(t) \/ ExecutePaperTrade(t)
          \/ SaveTransition(t)

Spec == Init /\ [][Next]_vars

-----------------------------------------------------------------------------
(* The decision's part of the operator's checklist: the four steps read    *)
(* from the cycle journaled last.  The other three are not modelled:       *)
(* price_refresh shows the latest operation, and is open again when a      *)
(* refresh begins or fails; spy_benchmark shows the fulfilment status, and *)
(* is open again after a later deposit; research is done with any batch.   *)

DecisionSteps == {"decision", "review", "approval", "execution"}

LatestJournal(r) == Of(r.journals, r.latest)

LatestApproval(r) == Of(r.approvals, r.latest)

Completed(r) ==
  {step \in DecisionSteps :
     CASE step = "decision"  -> LatestJournal(r) # {}
       [] step = "review"    -> Of(r.reviews, r.latest) # {}
       [] step = "approval"  -> LatestApproval(r) # {}
       [] step = "execution" -> \E h \in Of(r.entries, r.latest) : h.trade # NoId}

(* Nothing more is to be done for the step; where execution is not, its    *)
(* readiness names what blocks it or offers EXECUTE_PAPER_TRADE.           *)
IsTerminalStep(r, step) ==
  \E j \in LatestJournal(r) :
    LET rejected == \E a \in LatestApproval(r) : a.decision = "REJECTED"
    IN CASE step = "decision"  -> j.verdict # "BUY_PASSED"
         [] step = "review"    -> FALSE
         [] step = "approval"  -> rejected
         [] step = "execution" -> \/ j.verdict # "BUY_PASSED"
                                  \/ rejected
                                  \/ step \in Completed(r)

TerminalSteps(r) == {step \in DecisionSteps : IsTerminalStep(r, step)}

-----------------------------------------------------------------------------
(* Properties *)

HasOutcome(r, c, decision) ==
  \E a \in Of(r.approvals, c) : a.decision = decision

(* How far a cycle has come.                                               *)
Stage(r, c) ==
  IF Of(r.batches, c) = {} THEN "ABSENT"
  ELSE IF Of(r.executions, c) # {} THEN "EXECUTED"
  ELSE IF \E b \in r.batches : b.parent = c THEN "REVISED"
  ELSE IF HasOutcome(r, c, "APPROVED") THEN "APPROVED"
  ELSE IF HasOutcome(r, c, "REJECTED") THEN "REJECTED"
  ELSE IF Of(r.journals, c) # {} THEN "JOURNALED" ELSE "RESEARCHED"

Lifecycle == INSTANCE CycleLifecycle
               WITH stage <- [c \in Cycles |-> Stage(run, c)]

(***************************************************************************)
(* Whatever the threads do with their stale snapshots - two manager runs,  *)
(* an approval racing a rejection, a rejection racing an execution, two    *)
(* revisions - every cycle takes one step of its lifecycle at a time,      *)
(* never back, with one outcome and one successor of it.                   *)
(***************************************************************************)
LifecycleIsImplemented == Lifecycle!Spec

(***************************************************************************)
(* docs/portfolio-domain-model.md:622-623: a revision points to a prior    *)
(* cycle, and revision lineage is a chronological, acyclic linear chain of *)
(* rejected cycles.  Acyclic because created_at grows along it.            *)
(***************************************************************************)
LineageIsALinearChain ==
  \A b \in run.batches : b.parent # NoId =>
    /\ \E p \in Of(run.batches, b.parent), a \in Of(run.approvals, b.parent) :
         a.decision = "REJECTED" /\ p.created <= a.at /\ a.at < b.created
    /\ \A other \in run.batches : other.parent = b.parent => other = b

(***************************************************************************)
(* A manager decision is only journaled for the batch that is the latest   *)
(* when it is saved: research that arrives while the language model is     *)
(* being asked makes the answer stale, and it is not recorded.             *)
(***************************************************************************)
JournalsAnswerTheLatestResearch ==
  [][\A j \in run'.journals \ run.journals :
       \E b \in Of(run.batches, j.cycle) : IsAuthoritative(b, run)]_vars

(***************************************************************************)
(* The four decision steps of the checklist only move forward, whatever    *)
(* order commands are saved in: they leave a decision only for one on      *)
(* newer research, and until then none that is done is shown as open again *)
(* and none that is finished as one to be taken.                           *)
(***************************************************************************)
DecisionStepsMoveForward ==
  [][IF run'.latest = run.latest
     THEN /\ Completed(run) \subseteq Completed(run')
          /\ TerminalSteps(run) \subseteq TerminalSteps(run')
     ELSE \A b \in Of(run.batches, run.latest) :
            \E newer \in Of(run.batches, run'.latest) : b.created < newer.created
    ]_vars

(***************************************************************************)
(* The decision history the dashboard shows agrees with the artifacts: it  *)
(* has an entry for exactly the cycles with a human outcome, and the entry *)
(* shows a trade exactly when the cycle was executed.                      *)
(***************************************************************************)
HistoryShowsEveryOutcome ==
  /\ {h.cycle : h \in run.entries} = {a.cycle : a \in run.approvals}
  /\ {[id |-> h.trade, cycle |-> h.cycle] :
        h \in {h \in run.entries : h.trade # NoId}} = run.executions
=============================================================================
