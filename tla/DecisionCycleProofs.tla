-------------------------- MODULE DecisionCycleProofs --------------------------
(***************************************************************************)
(* What holds of DecisionCycle for any number of threads, cycles, checks   *)
(* and time stamps: the three invariants and the three step properties of  *)
(* its run, the implementation of CycleLifecycle among them.               *)
(***************************************************************************)
EXTENDS DecisionCycle, TLAPS

-----------------------------------------------------------------------------
(* The inductive invariant *)

(* Decisions are no older than the research they answer, outcomes no older *)
(* than the decision.                                                      *)
IsDated(r) ==
  /\ \A j \in r.journals : \E b \in r.batches :
       b.cycle = j.cycle /\ b.created <= j.at
  /\ \A a \in r.approvals : \E j \in r.journals :
       j.cycle = a.cycle /\ j.at <= a.at

ShowsEveryOutcome(r) ==
  /\ {h.cycle : h \in r.entries} = {a.cycle : a \in r.approvals}
  /\ {[id |-> h.trade, cycle |-> h.cycle] :
        h \in {h \in r.entries : h.trade # NoId}} = r.executions

IsAChain(r) ==
  \A b \in r.batches : b.parent # NoId =>
    /\ \E p \in Of(r.batches, b.parent), a \in Of(r.approvals, b.parent) :
         a.decision = "REJECTED" /\ p.created <= a.at /\ a.at < b.created
    /\ \A other \in r.batches : other.parent = b.parent => other = b

(* What holds of the run, and of every aggregate about to be saved.        *)
IsSound(r) ==
  /\ r \in Runs
  /\ OnePerCycle(r.batches)
  /\ IsDated(r)
  /\ ShowsEveryOutcome(r)
  /\ IsAChain(r)

Inv ==
  /\ IsSound(run) /\ ValidDecisionGraph(run)
  /\ proposals \in [Threads -> Runs]
  /\ \A t \in Threads : IsSound(proposals[t])

-----------------------------------------------------------------------------
(* Each command computes a sound aggregate from a sound one *)

(* The empty run is sound.                                                 *)
LEMMA NewRunIsSound == IsSound(NewRun) /\ ValidDecisionGraph(NewRun)
<1>1. NewRun \in Runs
  BY DEF NewRun, Runs
<1>2. IsDated(NewRun) /\ IsAChain(NewRun) /\ OnePerCycle(NewRun.batches)
  BY DEF NewRun, IsDated, IsAChain, OnePerCycle
<1>3. ShowsEveryOutcome(NewRun)
  BY DEF NewRun, ShowsEveryOutcome
<1>4. ValidDecisionGraph(NewRun)
  BY DEF NewRun, ValidDecisionGraph, OnePerCycle, HasCycleIn
<1> QED
  BY <1>1, <1>2, <1>3, <1>4 DEF IsSound

(* An id that was just made is the id of no batch and no check of the run. *)
LEMMA FreshIsNew ==
  ASSUME NEW ids, NEW x \in Fresh(ids)
  PROVE  /\ x \in ids
         /\ \A b \in run.batches : b.cycle # x
         /\ \A k \in run.checks : k.id # x
BY DEF Fresh

(* Adding the batch of a new cycle, which revises no cycle or a rejected   *)
(* one without a successor, after its rejection.                           *)
LEMMA NewBatchIsSound ==
  ASSUME NEW r, IsSound(r), NEW b \in Batches,
         \A other \in r.batches : other.cycle # b.cycle,
         b.parent # NoId =>
           /\ \A other \in r.batches : other.parent # b.parent
           /\ \E a \in Of(r.approvals, b.parent) :
                a.decision = "REJECTED" /\ a.at < b.created
  PROVE  IsSound([r EXCEPT !.batches = @ \cup {b}])
<1> DEFINE p == [r EXCEPT !.batches = @ \cup {b}]
<1>1. r \in Runs /\ IsDated(r) /\ IsAChain(r) /\ OnePerCycle(r.batches)
  BY DEF IsSound
<1>2. /\ p \in Runs /\ p.batches = r.batches \cup {b}
      /\ p.journals = r.journals /\ p.approvals = r.approvals
      /\ p.entries = r.entries /\ p.executions = r.executions
  BY <1>1 DEF Runs
<1> HIDE DEF p
<1>3. OnePerCycle(p.batches)
  BY <1>1, <1>2 DEF OnePerCycle
<1>4. IsDated(p)
  BY <1>1, <1>2 DEF IsDated
<1>5. ShowsEveryOutcome(p)
  BY <1>2 DEF IsSound, ShowsEveryOutcome
<1>6. IsAChain(p)
  <2> SUFFICES ASSUME NEW x \in p.batches, x.parent # NoId
               PROVE  /\ \E o \in Of(p.batches, x.parent),
                            a \in Of(p.approvals, x.parent) :
                           /\ a.decision = "REJECTED"
                           /\ o.created <= a.at /\ a.at < x.created
                      /\ \A other \in p.batches : other.parent = x.parent => other = x
    BY DEF IsAChain
  <2>1. CASE x \in r.batches
    <3>1. PICK o \in Of(r.batches, x.parent), a \in Of(r.approvals, x.parent) :
            a.decision = "REJECTED" /\ o.created <= a.at /\ a.at < x.created
      BY <1>1, <2>1 DEF IsAChain
    <3>2. \A other \in r.batches : other.parent = x.parent => other = x
      BY <1>1, <2>1 DEF IsAChain
    <3>3. b.parent # x.parent
      BY <2>1
    <3> QED
      BY <1>2, <3>1, <3>2, <3>3 DEF Of
  <2>2. CASE x = b
    <3>1. PICK a \in Of(r.approvals, b.parent) :
            a.decision = "REJECTED" /\ a.at < b.created
      BY <2>2
    <3>2. PICK j \in r.journals : j.cycle = a.cycle /\ j.at <= a.at
      BY <1>1 DEF IsDated, Of
    <3>3. PICK o \in r.batches : o.cycle = j.cycle /\ o.created <= j.at
      BY <1>1 DEF IsDated
    <3>4. o.created <= a.at
      BY <1>1, <3>1, <3>2, <3>3 DEF Runs, Batches, Journals, Approvals, Times, Of
    <3> QED
      BY <1>2, <2>2, <3>1, <3>2, <3>3, <3>4 DEF Of
  <2> QED
    BY <1>2, <2>1, <2>2
<1> QED
  BY <1>2, <1>3, <1>4, <1>5, <1>6 DEF IsSound, p

(* Adding a decision about a batch of the run.                             *)
LEMMA NewJournalIsSound ==
  ASSUME NEW r, IsSound(r), NEW j \in Journals,
         \E b \in r.batches : b.cycle = j.cycle /\ b.created <= j.at
  PROVE  IsSound([r EXCEPT !.journals = @ \cup {j}, !.latest = j.cycle])
<1> DEFINE p == [r EXCEPT !.journals = @ \cup {j}, !.latest = j.cycle]
<1>1. r \in Runs
  BY DEF IsSound
<1>2. j.cycle \in Cycles
  BY DEF Journals
<1>3. /\ p \in Runs /\ p.journals = r.journals \cup {j}
      /\ p.batches = r.batches /\ p.approvals = r.approvals
      /\ p.entries = r.entries /\ p.executions = r.executions
  BY <1>1, <1>2 DEF Runs
<1> HIDE DEF p
<1>4. IsDated(p)
  BY <1>3 DEF IsSound, IsDated
<1>5. ShowsEveryOutcome(p) /\ IsAChain(p) /\ OnePerCycle(p.batches)
  BY <1>3 DEF IsSound, ShowsEveryOutcome, IsAChain, OnePerCycle
<1> QED
  BY <1>3, <1>4, <1>5 DEF IsSound, p

(* Adding a review or an execution check.                                  *)
LEMMA NewReviewIsSound ==
  ASSUME NEW r, IsSound(r), NEW v \in Reviews
  PROVE  IsSound([r EXCEPT !.reviews = @ \cup {v}])
<1> DEFINE p == [r EXCEPT !.reviews = @ \cup {v}]
<1>1. r \in Runs
  BY DEF IsSound
<1>2. /\ p \in Runs /\ p.batches = r.batches /\ p.journals = r.journals
      /\ p.approvals = r.approvals /\ p.entries = r.entries
      /\ p.executions = r.executions
  BY <1>1 DEF Runs
<1> HIDE DEF p
<1> QED
  BY <1>2 DEF IsSound, IsDated, ShowsEveryOutcome, IsAChain, p

LEMMA NewCheckIsSound ==
  ASSUME NEW r, IsSound(r),
         NEW id \in Checks, NEW c \in Cycles, NEW passed \in BOOLEAN
  PROVE  IsSound(WithCheck(r, id, c, passed))
<1> DEFINE k == [id |-> id, cycle |-> c, passed |-> passed]
           p == WithCheck(r, id, c, passed)
<1>1. r \in Runs /\ k \in CheckSet
  BY DEF IsSound, CheckSet
<1>2. /\ p \in Runs /\ p.batches = r.batches /\ p.journals = r.journals
      /\ p.approvals = r.approvals /\ p.entries = r.entries
      /\ p.executions = r.executions
  BY <1>1 DEF Runs, WithCheck
<1> HIDE DEF p
<1>3. IsSound(p)
  BY <1>2 DEF IsSound, IsDated, ShowsEveryOutcome, IsAChain
<1> QED
  BY <1>3 DEF p

(* An outcome comes with its entry in the history.                         *)
LEMMA NewOutcomeIsSound ==
  ASSUME NEW r, IsSound(r), NEW a \in Approvals,
         \E j \in r.journals : j.cycle = a.cycle /\ j.at <= a.at,
         Of(r.approvals, a.cycle) = {}
  PROVE  IsSound(WithOutcome(r, a))
<1> DEFINE p == WithOutcome(r, a)
           entry == [cycle |-> a.cycle, trade |-> NoId]
<1>1. r \in Runs /\ entry \in Entries
  BY DEF IsSound, Entries, Approvals
<1>2. /\ p \in Runs /\ p.batches = r.batches /\ p.journals = r.journals
      /\ p.approvals = r.approvals \cup {a} /\ p.executions = r.executions
      /\ p.entries = r.entries \cup {entry}
  BY <1>1 DEF Runs, WithOutcome
<1>3. entry.cycle = a.cycle /\ entry.trade = NoId
  OBVIOUS
<1> HIDE DEF p, entry
<1>4. IsDated(p) /\ OnePerCycle(p.batches)
  BY <1>2 DEF IsSound, IsDated
<1>5. ShowsEveryOutcome(p)
  <2>1. {h.cycle : h \in p.entries} = {x.cycle : x \in p.approvals}
    <3>1. {h.cycle : h \in r.entries} = {x.cycle : x \in r.approvals}
      BY DEF IsSound, ShowsEveryOutcome
    <3>2. {h.cycle : h \in p.entries} = {h.cycle : h \in r.entries} \cup {a.cycle}
      BY <1>2, <1>3
    <3>3. {x.cycle : x \in p.approvals} = {x.cycle : x \in r.approvals} \cup {a.cycle}
      BY <1>2
    <3> QED
      BY <3>1, <3>2, <3>3
  <2>2. {h \in p.entries : h.trade # NoId} = {h \in r.entries : h.trade # NoId}
    BY <1>2, <1>3
  <2> QED
    BY <1>2, <2>1, <2>2 DEF IsSound, ShowsEveryOutcome
<1>6. IsAChain(p)
  BY <1>2 DEF IsSound, IsAChain, Of
<1> QED
  BY <1>2, <1>4, <1>5, <1>6 DEF IsSound, p

(* The trade of an approved cycle that was not executed joins its entry.   *)
LEMMA NewExecutionIsSound ==
  ASSUME NEW r, IsSound(r), NEW id \in Checks, NEW c \in Cycles,
         Of(r.approvals, c) # {}, Of(r.executions, c) = {}
  PROVE  IsSound(WithExecution(r, id, c))
<1> DEFINE p == WithExecution(r, id, c)
           entry == [cycle |-> c, trade |-> id]
           execution == [id |-> id, cycle |-> c]
<1>1. r \in Runs /\ entry \in Entries /\ execution \in Executions
  BY DEF IsSound, Entries, Executions
<1>2. /\ p \in Runs /\ p.batches = r.batches /\ p.journals = r.journals
      /\ p.approvals = r.approvals
      /\ p.executions = r.executions \cup {execution}
      /\ p.entries = (r.entries \ Of(r.entries, c)) \cup {entry}
  BY <1>1 DEF Runs, WithExecution
<1>3. entry.cycle = c /\ entry.trade = id /\ id # NoId
  BY IdAssumption
<1>4. execution = [id |-> entry.trade, cycle |-> entry.cycle]
  OBVIOUS
<1> HIDE DEF p, entry, execution
<1>5. IsDated(p) /\ OnePerCycle(p.batches) /\ IsAChain(p)
  BY <1>2 DEF IsSound, IsDated, IsAChain
<1>6. ShowsEveryOutcome(p)
  <2>1. {h.cycle : h \in p.entries} = {x.cycle : x \in p.approvals}
    <3>1. {h.cycle : h \in r.entries} = {x.cycle : x \in r.approvals}
      BY DEF IsSound, ShowsEveryOutcome
    <3>2. \E h \in r.entries : h.cycle = c
      BY <3>1 DEF Of
    <3> QED
      BY <1>2, <1>3, <3>1, <3>2 DEF Of
  <2>2. \A h \in r.entries : h.trade # NoId =>
          [id |-> h.trade, cycle |-> h.cycle] \in r.executions
    BY DEF IsSound, ShowsEveryOutcome
  <2>3. \A h \in Of(r.entries, c) : h.trade = NoId
    <3> SUFFICES ASSUME NEW h \in Of(r.entries, c), h.trade # NoId
                 PROVE  FALSE
      OBVIOUS
    <3>1. [id |-> h.trade, cycle |-> h.cycle] \in Of(r.executions, c)
      BY <2>2 DEF Of
    <3> QED
      BY <3>1
  <2>4. {h \in p.entries : h.trade # NoId}
          = {h \in r.entries : h.trade # NoId} \cup {entry}
    BY <1>2, <1>3, <2>3
  <2>5. {[id |-> h.trade, cycle |-> h.cycle] :
           h \in {h \in p.entries : h.trade # NoId}} = p.executions
    BY <1>2, <1>4, <2>4 DEF IsSound, ShowsEveryOutcome
  <2> QED
    BY <2>1, <2>5 DEF ShowsEveryOutcome
<1> QED
  BY <1>2, <1>5, <1>6 DEF IsSound, p

(* Whatever a thread is about to save is sound.                            *)
LEMMA ProposalsAreSound ==
  ASSUME Inv, NEW t \in Threads, NEW p, Proposes(t, p), IsSound(p)
  PROVE  Inv'
BY DEF Inv, Proposes, IsSound

LEMMA InvIsInductive == Spec => []Inv
<1>1. Init => Inv
  BY NewRunIsSound DEF Init, Inv, IsSound
<1>2. Inv /\ [Next]_vars => Inv'
  <2> SUFFICES ASSUME Inv, [Next]_vars PROVE Inv'
    OBVIOUS
  <2>0. IsSound(run) /\ run \in Runs
    BY DEF Inv, IsSound
  <2>1. CASE UNCHANGED vars
    BY <2>1 DEF vars, Inv
  <2>2. ASSUME NEW t \in Threads, BuildResearch(t) PROVE Inv'
    <3>1. PICK c \in Fresh(Cycles), now \in Times :
            Proposes(t, [run EXCEPT !.batches =
              @ \cup {[cycle |-> c, created |-> now, parent |-> NoId]}])
      BY <2>2 DEF BuildResearch
    <3> DEFINE b == [cycle |-> c, created |-> now, parent |-> NoId]
    <3>2. b \in Batches /\ b.cycle = c /\ b.parent = NoId
      BY FreshIsNew DEF Batches
    <3>3. IsSound([run EXCEPT !.batches = @ \cup {b}])
      BY <2>0, <3>2, FreshIsNew, NewBatchIsSound
    <3> QED
      BY <3>1, <3>3, ProposalsAreSound
  <2>3. ASSUME NEW t \in Threads, RunValueManager(t) PROVE Inv'
    <3>1. PICK b \in run.batches, verdict \in Answers, at \in Times :
            /\ at >= b.created
            /\ Proposes(t, [run EXCEPT
                 !.journals = @ \cup
                   {[cycle |-> b.cycle, verdict |-> verdict, at |-> at, by |-> t]},
                 !.latest = b.cycle])
      BY <2>3 DEF RunValueManager
    <3> DEFINE j == [cycle |-> b.cycle, verdict |-> verdict, at |-> at, by |-> t]
    <3>2. j \in Journals /\ j.cycle = b.cycle /\ b.created <= j.at
      BY <2>0, <3>1, AnswerAssumption DEF Journals, Runs, Batches, Times
    <3>3. IsSound([run EXCEPT !.journals = @ \cup {j}, !.latest = j.cycle])
      BY <2>0, <3>2, NewJournalIsSound
    <3> QED
      BY <3>1, <3>3, ProposalsAreSound
  <2>4. ASSUME NEW t \in Threads, ReviewDecision(t) PROVE Inv'
    <3>1. PICK j \in run.journals :
            Proposes(t, [run EXCEPT !.reviews = @ \cup {[cycle |-> j.cycle, by |-> t]}])
      BY <2>4 DEF ReviewDecision
    <3>2. [cycle |-> j.cycle, by |-> t] \in Reviews
      BY <2>0 DEF Reviews, Runs, Journals
    <3> QED
      BY <2>0, <3>1, <3>2, NewReviewIsSound, ProposalsAreSound
  <2>5. ASSUME NEW t \in Threads, Decide(t) PROVE Inv'
    <3>1. PICK j \in run.journals, decision \in {"APPROVED", "REJECTED"}, at \in Times :
            /\ Of(run.approvals, j.cycle) = {} /\ at >= j.at
            /\ Proposes(t, WithOutcome(run,
                 [cycle |-> j.cycle, decision |-> decision, at |-> at]))
      BY <2>5 DEF Decide
    <3> DEFINE a == [cycle |-> j.cycle, decision |-> decision, at |-> at]
    <3>2. a \in Approvals /\ a.cycle = j.cycle /\ j.at <= a.at
      BY <2>0, <3>1 DEF Approvals, Runs, Journals, Times
    <3>3. IsSound(WithOutcome(run, a))
      BY <2>0, <3>1, <3>2, NewOutcomeIsSound
    <3> QED
      BY <3>1, <3>3, ProposalsAreSound
  <2>6. ASSUME NEW t \in Threads, ReviseDecision(t) PROVE Inv'
    <3>0. PICK j \in run.journals, at \in Times, child \in Fresh(Cycles) :
            \E a \in Of(run.approvals, j.cycle) :
              /\ a.decision = "REJECTED" /\ MayRevise(j.cycle)
              /\ AfterDecision(at, j, a)
              /\ Proposes(t, [run EXCEPT !.batches = @ \cup
                   {[cycle |-> child, created |-> at, parent |-> j.cycle]}])
      BY <2>6 DEF ReviseDecision
    <3>1. PICK a \in Of(run.approvals, j.cycle) :
            /\ a.decision = "REJECTED" /\ MayRevise(j.cycle)
            /\ AfterDecision(at, j, a)
            /\ Proposes(t, [run EXCEPT !.batches = @ \cup
                 {[cycle |-> child, created |-> at, parent |-> j.cycle]}])
      BY <3>0
    <3> DEFINE b == [cycle |-> child, created |-> at, parent |-> j.cycle]
    <3>2. j.cycle \in Cycles /\ a.at \in Times
      BY <2>0 DEF Runs, Journals, Approvals, Of
    <3>3. b \in Batches /\ b.cycle = child /\ b.parent = j.cycle /\ b.created = at
      BY <3>2, FreshIsNew DEF Batches
    <3>4. a.at < at
      BY <3>1, <3>2 DEF AfterDecision, Times
    <3>5. IsSound([run EXCEPT !.batches = @ \cup {b}])
      BY <2>0, <3>1, <3>3, <3>4, FreshIsNew, NewBatchIsSound DEF MayRevise
    <3> QED
      BY <3>1, <3>5, ProposalsAreSound
  <2>7. ASSUME NEW t \in Threads, ExecutePaperTrade(t) PROVE Inv'
    <3>1. PICK j \in run.journals, id \in Fresh(Checks), passed \in BOOLEAN :
            /\ Of(run.approvals, j.cycle) # {} /\ Of(run.executions, j.cycle) = {}
            /\ \/ Proposes(t, WithCheck(run, id, j.cycle, passed))
               \/ Proposes(t, WithExecution(WithCheck(run, id, j.cycle, passed),
                                            id, j.cycle))
      BY <2>7 DEF ExecutePaperTrade
    <3> DEFINE checked == WithCheck(run, id, j.cycle, passed)
    <3>2. j.cycle \in Cycles /\ id \in Checks
      BY <2>0, FreshIsNew DEF Runs, Journals
    <3>3. IsSound(checked)
      BY <2>0, <3>2, NewCheckIsSound
    <3>4. checked.approvals = run.approvals /\ checked.executions = run.executions
      BY DEF WithCheck
    <3> HIDE DEF checked
    <3>5. IsSound(WithExecution(checked, id, j.cycle))
      BY <3>1, <3>2, <3>3, <3>4, NewExecutionIsSound
    <3> USE DEF checked
    <3> QED
      BY <3>1, <3>3, <3>5, ProposalsAreSound
  <2>8. ASSUME NEW t \in Threads, SaveTransition(t) PROVE Inv'
    <3>1. \/ run' = run
          \/ run' = proposals[t] /\ ValidDecisionGraph(proposals[t])
      BY <2>8 DEF SaveTransition, Accepts
    <3>2. IsSound(run') /\ ValidDecisionGraph(run')
      BY <3>1 DEF Inv
    <3>3. /\ proposals' \in [Threads -> Runs]
          /\ \A u \in Threads : IsSound(proposals'[u])
      BY <2>8, NewRunIsSound DEF SaveTransition, Leaves, Inv, IsSound
    <3> QED
      BY <3>2, <3>3 DEF Inv
  <2> QED
    BY <2>1, <2>2, <2>3, <2>4, <2>5, <2>6, <2>7, <2>8 DEF Next
<1> QED
  BY <1>1, <1>2, PTL DEF Spec

-----------------------------------------------------------------------------
(* Invariants *)

(* The run and every aggregate about to be saved keep their types.         *)
THEOREM TypeCorrect == Spec => []TypeOK
<1>1. Inv => TypeOK
  BY DEF Inv, IsSound, TypeOK
<1> QED
  BY <1>1, InvIsInductive, PTL

(***************************************************************************)
(* The decision history has an entry for exactly the cycles with an        *)
(* outcome, with a trade exactly where one was executed.                   *)
(***************************************************************************)
THEOREM HistoryIsComplete == Spec => []HistoryShowsEveryOutcome
<1>1. Inv => HistoryShowsEveryOutcome
  BY DEF Inv, IsSound, ShowsEveryOutcome, HistoryShowsEveryOutcome
<1> QED
  BY <1>1, InvIsInductive, PTL

(***************************************************************************)
(* Racing revisions leave one chronological chain of rejected cycles.      *)
(***************************************************************************)
THEOREM LineageIsAChain == Spec => []LineageIsALinearChain
<1>1. Inv => LineageIsALinearChain
  BY DEF Inv, IsSound, IsAChain, LineageIsALinearChain
<1> QED
  BY <1>1, InvIsInductive, PTL

-----------------------------------------------------------------------------
(* What a save may add *)

(* Each kind of command adds at most one record of its kind to a run r     *)
(* that may have moved on since it read it.  What it relies on are records *)
(* of r, which no save takes away.                                         *)
AddsNoDecision(p, r) == p.batches \subseteq r.batches /\ p.journals \subseteq r.journals

AddsNoOutcome(p, r) ==
  p.approvals \subseteq r.approvals /\ p.executions \subseteq r.executions

AddsABatch(p, r) ==
  /\ p.journals \subseteq r.journals /\ AddsNoOutcome(p, r)
  /\ \E b \in p.batches :
       /\ p.batches \subseteq r.batches \cup {b}
       /\ b.parent # NoId =>
            /\ Of(p.executions, b.parent) = {}
            /\ \E a \in Of(r.approvals, b.parent) : a.decision = "REJECTED"

AddsAJournal(p, r) ==
  /\ p.batches \subseteq r.batches /\ AddsNoOutcome(p, r)
  /\ \E j \in p.journals : p.journals \subseteq r.journals \cup {j}

AddsAnOutcome(p, r) ==
  /\ AddsNoDecision(p, r) /\ p.executions \subseteq r.executions
  /\ \E a \in p.approvals : p.approvals \subseteq r.approvals \cup {a}

AddsAnExecution(p, r) ==
  /\ AddsNoDecision(p, r) /\ p.approvals \subseteq r.approvals
  /\ \E e \in p.executions :
       /\ p.executions \subseteq r.executions \cup {e}
       /\ \E a \in Of(r.approvals, e.cycle) : a.decision = "APPROVED"

AddsOneRecord(p, r) ==
  \/ AddsNoDecision(p, r) /\ AddsNoOutcome(p, r)
  \/ AddsABatch(p, r) \/ AddsAJournal(p, r)
  \/ AddsAnOutcome(p, r) \/ AddsAnExecution(p, r)

(* A decision is about the batch that is the latest of those p has, and    *)
(* p has moved to another cycle only with a decision about it.             *)
JournalsTheLatest(p, r) ==
  /\ \A j \in p.journals \ r.journals :
       /\ j.cycle = p.latest
       /\ \E b \in r.batches : b.cycle = p.latest /\ IsAuthoritative(b, p)
  /\ r.journals \subseteq p.journals /\ p.latest # r.latest
       => p.journals \ r.journals # {}

IsPending(p, r) == AddsOneRecord(p, r) /\ JournalsTheLatest(p, r)

Pending == \A t \in Threads : ~Idle(t) => IsPending(proposals[t], run)

Grows(r, q) ==
  /\ r.batches \subseteq q.batches /\ r.journals \subseteq q.journals
  /\ r.approvals \subseteq q.approvals /\ r.executions \subseteq q.executions

(* A save by another thread leaves what is pending pending.                *)
LEMMA PendingIsKept ==
  ASSUME NEW p, NEW r, NEW q, Grows(r, q), IsPending(p, r), JournalsTheLatest(q, r)
  PROVE  IsPending(p, q)
<1>1. AddsOneRecord(p, q)
  <2>1. CASE AddsNoDecision(p, r) /\ AddsNoOutcome(p, r)
    BY <2>1 DEF Grows, AddsOneRecord, AddsNoDecision, AddsNoOutcome
  <2>2. CASE AddsABatch(p, r)
    BY <2>2 DEF Grows, AddsOneRecord, AddsABatch, AddsNoOutcome, Of
  <2>3. CASE AddsAJournal(p, r)
    BY <2>3 DEF Grows, AddsOneRecord, AddsAJournal, AddsNoOutcome
  <2>4. CASE AddsAnOutcome(p, r)
    BY <2>4 DEF Grows, AddsOneRecord, AddsAnOutcome, AddsNoDecision
  <2>5. CASE AddsAnExecution(p, r)
    BY <2>5 DEF Grows, AddsOneRecord, AddsAnExecution, AddsNoDecision, Of
  <2> QED
    BY <2>1, <2>2, <2>3, <2>4, <2>5 DEF IsPending, AddsOneRecord
<1>2. JournalsTheLatest(p, q)
  <2>1. ASSUME NEW j \in p.journals \ q.journals
        PROVE  /\ j.cycle = p.latest
               /\ \E b \in q.batches : b.cycle = p.latest /\ IsAuthoritative(b, p)
    BY DEF Grows, IsPending, JournalsTheLatest
  <2>2. ASSUME q.journals \subseteq p.journals, p.latest # q.latest
        PROVE  p.journals \ q.journals # {}
    <3>1. r.journals \subseteq p.journals /\ r.journals \subseteq q.journals
      BY <2>2 DEF Grows
    <3>2. CASE p.latest = r.latest
      <4>1. PICK j \in q.journals \ r.journals : j.cycle = q.latest
        BY <2>2, <3>1, <3>2 DEF JournalsTheLatest
      <4>2. j.cycle = p.latest
        BY <2>2 DEF IsPending, JournalsTheLatest
      <4> QED
        BY <2>2, <4>1, <4>2
    <3>3. CASE p.latest # r.latest
      <4>1. PICK j \in p.journals \ r.journals : j.cycle = p.latest
        BY <3>1, <3>3 DEF IsPending, JournalsTheLatest
      <4>2. j \notin q.journals
        BY <2>2, <4>1 DEF JournalsTheLatest
      <4> QED
        BY <4>2
    <3> QED
      BY <3>2, <3>3
  <2> QED
    BY <2>1, <2>2 DEF JournalsTheLatest
<1> QED
  BY <1>1, <1>2 DEF IsPending

(* Only a save changes the run, and it only adds to it.                    *)
LEMMA OnlySavesChangeTheRun ==
  ASSUME Inv, [Next]_vars
  PROVE  \/ UNCHANGED run
         \/ \E t \in Threads : /\ ~Idle(t) /\ run' = proposals[t]
                               /\ Accepts(run, proposals[t]) /\ Grows(run, run')
<1>1. ASSUME NEW t \in Threads, SaveTransition(t)
      PROVE  \/ UNCHANGED run
             \/ /\ ~Idle(t) /\ run' = proposals[t]
                /\ Accepts(run, proposals[t]) /\ Grows(run, run')
  BY <1>1 DEF SaveTransition, Accepts, RequireImmutableRecords, Grows
<1> QED
  BY <1>1 DEF Next, vars, Proposes, BuildResearch, RunValueManager, ReviewDecision,
              Decide, ReviseDecision, ExecutePaperTrade

(* A command leaves what the other threads are about to save alone.        *)
LEMMA ProposalsArePending ==
  ASSUME Inv, Pending, NEW t \in Threads, NEW p, Proposes(t, p), IsPending(p, run)
  PROVE  Pending'
BY DEF Inv, Pending, Proposes, Idle

(* A command that journals nothing stays with the cycle it found.          *)
LEMMA SameJournals ==
  ASSUME NEW p, NEW r, p.journals = r.journals, p.latest = r.latest
  PROVE  JournalsTheLatest(p, r)
BY DEF JournalsTheLatest

LEMMA PendingIsInductive == Spec => []Pending
<1>1. Init => Pending
  BY DEF Init, Pending, Idle
<1>2. Inv /\ Inv' /\ Pending /\ [Next]_vars => Pending'
  <2> SUFFICES ASSUME Inv, Inv', Pending, [Next]_vars PROVE Pending'
    OBVIOUS
  <2>0. run \in Runs /\ IsSound(run)
    BY DEF Inv, IsSound
  <2>1. CASE UNCHANGED vars
    BY <2>1 DEF vars, Pending, Idle
  <2>2. ASSUME NEW t \in Threads, BuildResearch(t) PROVE Pending'
    <3>1. PICK c \in Fresh(Cycles), now \in Times :
            Proposes(t, [run EXCEPT !.batches =
              @ \cup {[cycle |-> c, created |-> now, parent |-> NoId]}])
      BY <2>2 DEF BuildResearch
    <3> DEFINE b == [cycle |-> c, created |-> now, parent |-> NoId]
               p == [run EXCEPT !.batches = @ \cup {b}]
    <3>2. /\ p.batches = run.batches \cup {b} /\ b.parent = NoId
          /\ p.journals = run.journals /\ p.latest = run.latest
          /\ p.approvals = run.approvals /\ p.executions = run.executions
      BY <2>0 DEF Runs
    <3>3. Proposes(t, p)
      BY <3>1
    <3> HIDE DEF p, b
    <3>4. IsPending(p, run)
      BY <3>2, SameJournals DEF IsPending, AddsOneRecord, AddsABatch, AddsNoOutcome
    <3> QED
      BY <3>3, <3>4, ProposalsArePending
  <2>3. ASSUME NEW t \in Threads, RunValueManager(t) PROVE Pending'
    <3>1. PICK b \in run.batches, verdict \in Answers, at \in Times :
            /\ IsAuthoritative(b, run)
            /\ Proposes(t, [run EXCEPT
                 !.journals = @ \cup
                   {[cycle |-> b.cycle, verdict |-> verdict, at |-> at, by |-> t]},
                 !.latest = b.cycle])
            /\ Of(run.journals, b.cycle) = {}
      BY <2>3 DEF RunValueManager
    <3> DEFINE j == [cycle |-> b.cycle, verdict |-> verdict, at |-> at, by |-> t]
               p == [run EXCEPT !.journals = @ \cup {j}, !.latest = b.cycle]
    <3>2. /\ p.batches = run.batches /\ j.cycle = b.cycle
          /\ p.journals = run.journals \cup {j} /\ p.latest = b.cycle
          /\ p.approvals = run.approvals /\ p.executions = run.executions
      BY <2>0 DEF Runs
    <3>3. Proposes(t, p)
      BY <3>1
    <3> HIDE DEF p, j
    <3>4. j \notin run.journals
      BY <3>1, <3>2 DEF Of
    <3>5. IsAuthoritative(b, p)
      BY <3>1, <3>2 DEF IsAuthoritative, LatestBatches
    <3>6. JournalsTheLatest(p, run)
      BY <3>2, <3>4, <3>5 DEF JournalsTheLatest
    <3>7. AddsAJournal(p, run)
      BY <3>2 DEF AddsAJournal, AddsNoOutcome
    <3> QED
      BY <3>3, <3>6, <3>7, ProposalsArePending DEF IsPending, AddsOneRecord
  <2>4. ASSUME NEW t \in Threads, ReviewDecision(t) PROVE Pending'
    <3>1. PICK j \in run.journals :
            Proposes(t, [run EXCEPT !.reviews = @ \cup {[cycle |-> j.cycle, by |-> t]}])
      BY <2>4 DEF ReviewDecision
    <3> DEFINE p == [run EXCEPT !.reviews = @ \cup {[cycle |-> j.cycle, by |-> t]}]
    <3>2. /\ p.batches = run.batches
          /\ p.journals = run.journals /\ p.latest = run.latest
          /\ p.approvals = run.approvals /\ p.executions = run.executions
      BY <2>0 DEF Runs
    <3>3. Proposes(t, p)
      BY <3>1
    <3> HIDE DEF p
    <3>4. IsPending(p, run)
      BY <3>2, SameJournals DEF IsPending, AddsOneRecord, AddsNoDecision, AddsNoOutcome
    <3> QED
      BY <3>3, <3>4, ProposalsArePending
  <2>5. ASSUME NEW t \in Threads, Decide(t) PROVE Pending'
    <3>1. PICK j \in run.journals, decision \in {"APPROVED", "REJECTED"}, at \in Times :
            Proposes(t, WithOutcome(run,
              [cycle |-> j.cycle, decision |-> decision, at |-> at]))
      BY <2>5 DEF Decide
    <3> DEFINE a == [cycle |-> j.cycle, decision |-> decision, at |-> at]
               p == WithOutcome(run, a)
    <3>2. /\ p.batches = run.batches
          /\ p.journals = run.journals /\ p.latest = run.latest
          /\ p.approvals = run.approvals \cup {a} /\ p.executions = run.executions
      BY <2>0 DEF Runs, WithOutcome
    <3>3. Proposes(t, p)
      BY <3>1
    <3> HIDE DEF p, a
    <3>4. IsPending(p, run)
      BY <3>2, SameJournals DEF IsPending, AddsOneRecord, AddsAnOutcome, AddsNoDecision
    <3> QED
      BY <3>3, <3>4, ProposalsArePending
  <2>6. ASSUME NEW t \in Threads, ReviseDecision(t) PROVE Pending'
    <3>1. PICK j \in run.journals, at \in Times, child \in Fresh(Cycles) :
            /\ \E a \in Of(run.approvals, j.cycle) : a.decision = "REJECTED"
            /\ MayRevise(j.cycle)
            /\ Proposes(t, [run EXCEPT !.batches = @ \cup
                 {[cycle |-> child, created |-> at, parent |-> j.cycle]}])
      BY <2>6 DEF ReviseDecision
    <3> DEFINE b == [cycle |-> child, created |-> at, parent |-> j.cycle]
               p == [run EXCEPT !.batches = @ \cup {b}]
    <3>2. /\ p.batches = run.batches \cup {b} /\ b.parent = j.cycle
          /\ p.journals = run.journals /\ p.latest = run.latest
          /\ p.approvals = run.approvals /\ p.executions = run.executions
      BY <2>0 DEF Runs
    <3>3. Proposes(t, p)
      BY <3>1
    <3> HIDE DEF p, b
    <3>4. IsPending(p, run)
      BY <3>1, <3>2, SameJournals
      DEF IsPending, AddsOneRecord, AddsABatch, AddsNoOutcome, MayRevise
    <3> QED
      BY <3>3, <3>4, ProposalsArePending
  <2>7. ASSUME NEW t \in Threads, ExecutePaperTrade(t) PROVE Pending'
    <3>1. PICK j \in run.journals, id \in Fresh(Checks), passed \in BOOLEAN :
            /\ \E a \in Of(run.approvals, j.cycle) : a.decision = "APPROVED"
            /\ \/ Proposes(t, WithCheck(run, id, j.cycle, passed))
               \/ Proposes(t, WithExecution(WithCheck(run, id, j.cycle, passed),
                                            id, j.cycle))
      BY <2>7 DEF ExecutePaperTrade
    <3> DEFINE checked  == WithCheck(run, id, j.cycle, passed)
               executed == WithExecution(checked, id, j.cycle)
               e        == [id |-> id, cycle |-> j.cycle]
    <3>2. /\ checked.batches = run.batches
          /\ checked.journals = run.journals /\ checked.latest = run.latest
          /\ checked.approvals = run.approvals /\ checked.executions = run.executions
      BY <2>0 DEF Runs, WithCheck
    <3>3. /\ executed.batches = run.batches
          /\ executed.journals = run.journals /\ executed.latest = run.latest
          /\ executed.approvals = run.approvals
          /\ executed.executions = run.executions \cup {e} /\ e.cycle = j.cycle
      BY <2>0 DEF Runs, WithCheck, WithExecution
    <3>4. Proposes(t, checked) \/ Proposes(t, executed)
      BY <3>1
    <3> HIDE DEF checked, executed, e
    <3>5. IsPending(checked, run)
      BY <3>2, SameJournals DEF IsPending, AddsOneRecord, AddsNoDecision, AddsNoOutcome
    <3>6. IsPending(executed, run)
      BY <3>1, <3>3, SameJournals
      DEF IsPending, AddsOneRecord, AddsAnExecution, AddsNoDecision
    <3> QED
      BY <3>4, <3>5, <3>6, ProposalsArePending
  <2>8. ASSUME NEW t \in Threads, SaveTransition(t) PROVE Pending'
    <3>1. \/ run' = run
          \/ /\ ~Idle(t) /\ run' = proposals[t]
             /\ Accepts(run, proposals[t])
      BY <2>8 DEF SaveTransition
    <3>2. \A u \in Threads : ~Idle(u)' => proposals'[u] = proposals[u] /\ ~Idle(u)
      BY <2>8 DEF SaveTransition, Leaves, Inv, Idle
    <3>3. CASE run' = run
      BY <3>2, <3>3 DEF Pending
    <3>4. CASE ~Idle(t) /\ run' = proposals[t] /\ Accepts(run, proposals[t])
      <4>1. Grows(run, run')
        BY <3>4 DEF Grows, Accepts, RequireImmutableRecords
      <4>2. JournalsTheLatest(run', run)
        BY <3>4 DEF Pending, IsPending
      <4> SUFFICES ASSUME NEW u \in Threads, ~Idle(u)'
                   PROVE  IsPending(proposals'[u], run')
        BY DEF Pending
      <4>3. IsPending(proposals[u], run)
        BY <3>2 DEF Pending
      <4> QED
        BY <3>2, <4>1, <4>2, <4>3, PendingIsKept
    <3> QED
      BY <3>1, <3>3, <3>4
  <2> QED
    BY <2>1, <2>2, <2>3, <2>4, <2>5, <2>6, <2>7, <2>8 DEF Next
<1> QED
  BY <1>1, <1>2, InvIsInductive, PTL DEF Spec

(* The latest of more batches is the latest of fewer, if it is there.      *)
LEMMA StillAuthoritative ==
  ASSUME NEW p \in Runs, NEW r \in Runs, NEW b \in r.batches,
         r.batches \subseteq p.batches, IsAuthoritative(b, p)
  PROVE  /\ IsAuthoritative(b, r)
         /\ \A other \in r.batches : other # b => other.created < b.created
<1>1. \A x \in p.batches : x.created \in Nat
  BY DEF Runs, Batches, Times
<1>2. \A x \in p.batches : x.created <= b.created
  BY DEF IsAuthoritative, LatestBatches
<1>3. \A x \in r.batches : x # b => x.created < b.created
  <2> SUFFICES ASSUME NEW x \in r.batches, x.created >= b.created PROVE x = b
    BY <1>1
  <2>1. \A y \in p.batches : y.created <= x.created
    BY <1>1, <1>2
  <2> QED
    BY <2>1 DEF IsAuthoritative, LatestBatches
<1>4. IsAuthoritative(b, r)
  BY <1>1, <1>2, <1>3 DEF IsAuthoritative, LatestBatches
<1> QED
  BY <1>3, <1>4

-----------------------------------------------------------------------------
(* Step properties *)

(***************************************************************************)
(* An answer is journaled only while its research is the latest, however   *)
(* long ago the manager was asked.                                         *)
(***************************************************************************)
THEOREM AnswersAreCurrent == Spec => JournalsAnswerTheLatestResearch
<1>1. Inv /\ Pending /\ [Next]_vars =>
        \A j \in run'.journals \ run.journals :
          \E b \in Of(run.batches, j.cycle) : IsAuthoritative(b, run)
  <2> SUFFICES ASSUME Inv, Pending, [Next]_vars,
                      NEW j \in run'.journals \ run.journals
               PROVE  \E b \in Of(run.batches, j.cycle) : IsAuthoritative(b, run)
    OBVIOUS
  <2>1. PICK t \in Threads : /\ ~Idle(t) /\ run' = proposals[t]
                             /\ Accepts(run, proposals[t]) /\ Grows(run, run')
    BY OnlySavesChangeTheRun
  <2>2. PICK b \in run.batches : b.cycle = j.cycle /\ IsAuthoritative(b, run')
    BY <2>1 DEF Pending, IsPending, JournalsTheLatest
  <2>3. IsAuthoritative(b, run)
    BY <2>1, <2>2, StillAuthoritative DEF Inv, IsSound, Grows
  <2> QED
    BY <2>2, <2>3 DEF Of
<1> QED
  BY <1>1, InvIsInductive, PendingIsInductive, PTL
  DEF Spec, JournalsAnswerTheLatestResearch

(***************************************************************************)
(* The four decision steps of the checklist only move forward, and they    *)
(* leave a decision only for one on newer research.                        *)
(***************************************************************************)
THEOREM DecisionStepsAdvance == Spec => DecisionStepsMoveForward
<1> DEFINE Forward ==
      IF run'.latest = run.latest
      THEN /\ Completed(run) \subseteq Completed(run')
           /\ TerminalSteps(run) \subseteq TerminalSteps(run')
      ELSE \A b \in Of(run.batches, run.latest) :
             \E newer \in Of(run.batches, run'.latest) : b.created < newer.created
<1>1. Inv /\ Pending /\ [Next]_vars => Forward \/ UNCHANGED vars
  <2> SUFFICES ASSUME Inv, Pending, [Next]_vars PROVE Forward
    OBVIOUS
  <2>1. CASE UNCHANGED run
    BY <2>1
  <2>2. CASE \E t \in Threads : /\ ~Idle(t) /\ run' = proposals[t]
                                /\ Accepts(run, proposals[t]) /\ Grows(run, run')
    <3>1. PICK t \in Threads : /\ ~Idle(t) /\ run' = proposals[t]
                               /\ Accepts(run, run') /\ Grows(run, run')
      BY <2>2
    <3>2. CASE run'.latest = run.latest
      <4>1. /\ run.journals \subseteq run'.journals
            /\ run.reviews \subseteq run'.reviews
            /\ run.approvals \subseteq run'.approvals
        BY <3>1 DEF Accepts, RequireImmutableRecords
      <4>2. ASSUME NEW h \in Of(run.entries, run.latest), h.trade # NoId
            PROVE  \E new \in Of(run'.entries, run'.latest) : new.trade # NoId
        BY <3>1, <3>2, <4>2 DEF Accepts, RequireHistoryExecutionLinkage, Of
      <4>3. Completed(run) \subseteq Completed(run')
        BY <3>2, <4>1, <4>2 DEF Completed, DecisionSteps, LatestJournal, LatestApproval, Of
      <4>4. TerminalSteps(run) \subseteq TerminalSteps(run')
        BY <3>2, <4>1, <4>3
        DEF TerminalSteps, IsTerminalStep, DecisionSteps, LatestJournal, LatestApproval, Of
      <4> QED
        BY <3>2, <4>3, <4>4
    <3>3. CASE run'.latest # run.latest
      <4>1. PICK b \in run.batches : b.cycle = run'.latest /\ IsAuthoritative(b, run')
        BY <3>1, <3>3 DEF Pending, IsPending, JournalsTheLatest, Grows
      <4>2. \A other \in run.batches : other # b => other.created < b.created
        BY <3>1, <4>1, StillAuthoritative DEF Inv, IsSound, Grows
      <4> QED
        BY <3>3, <4>1, <4>2 DEF Of
    <3> QED
      BY <3>2, <3>3
  <2> QED
    BY <2>1, <2>2, OnlySavesChangeTheRun
<1> QED
  BY <1>1, InvIsInductive, PendingIsInductive, PTL DEF Spec, DecisionStepsMoveForward

-----------------------------------------------------------------------------
(* Each save is a step of the lifecycle *)

(* The stage of a cycle depends on the records about it only.              *)
LEMMA SameStage ==
  ASSUME NEW r, NEW p, NEW c,
         Of(p.batches, c) = {} <=> Of(r.batches, c) = {},
         Of(p.executions, c) = {} <=> Of(r.executions, c) = {},
         (\E b \in p.batches : b.parent = c) <=> (\E b \in r.batches : b.parent = c),
         Of(p.approvals, c) = Of(r.approvals, c),
         Of(p.journals, c) = {} <=> Of(r.journals, c) = {}
  PROVE  Stage(p, c) = Stage(r, c)
BY DEF Stage, HasOutcome

(* A cycle nobody has decided yet has come no further than its research.   *)
LEMMA Undecided ==
  ASSUME NEW r, IsSound(r), ValidDecisionGraph(r), NEW c \in Cycles,
         Of(r.journals, c) = {}
  PROVE  /\ Of(r.approvals, c) = {} /\ Of(r.executions, c) = {}
         /\ \A b \in r.batches : b.parent # c
<1>1. Of(r.approvals, c) = {}
  BY DEF ValidDecisionGraph, HasCycleIn, Of
<1>2. Of(r.executions, c) = {}
  BY <1>1 DEF ValidDecisionGraph, HasCycleIn, Of
<1>3. \A b \in r.batches : b.parent # c
  BY <1>1, IdAssumption DEF IsSound, IsAChain
<1> QED
  BY <1>1, <1>2, <1>3

(* A cycle without an outcome is neither executed nor revised.             *)
LEMMA WithoutOutcome ==
  ASSUME NEW r, IsSound(r), ValidDecisionGraph(r), NEW c \in Cycles,
         Of(r.approvals, c) = {}
  PROVE  Of(r.executions, c) = {} /\ \A b \in r.batches : b.parent # c
<1>1. Of(r.executions, c) = {}
  BY DEF ValidDecisionGraph, HasCycleIn, Of
<1>2. \A b \in r.batches : b.parent # c
  BY IdAssumption DEF IsSound, IsAChain
<1> QED
  BY <1>1, <1>2

(* A decided cycle has its research.                                       *)
LEMMA Researched ==
  ASSUME NEW r, IsSound(r), NEW c, Of(r.journals, c) # {}
  PROVE  Of(r.batches, c) # {}
BY DEF IsSound, IsDated, Of

Moves(r, p, c, from, to) ==
  /\ Stage(r, c) = from /\ Stage(p, c) = to
  /\ \A other \in Cycles \ {c} : Stage(p, other) = Stage(r, other)

Succeeds(r, p, parent, child) ==
  /\ Stage(r, parent) = "REJECTED" /\ Stage(r, child) = "ABSENT"
  /\ parent # child
  /\ Stage(p, parent) = "REVISED" /\ Stage(p, child) = "RESEARCHED"
  /\ \A other \in Cycles \ {parent, child} : Stage(p, other) = Stage(r, other)

IsLifeStep(r, p) ==
  \/ \A c \in Cycles : Stage(p, c) = Stage(r, c)
  \/ \E c \in Cycles :
       \/ Moves(r, p, c, "ABSENT", "RESEARCHED")
       \/ Moves(r, p, c, "RESEARCHED", "JOURNALED")
       \/ Moves(r, p, c, "JOURNALED", "APPROVED")
       \/ Moves(r, p, c, "JOURNALED", "REJECTED")
       \/ Moves(r, p, c, "APPROVED", "EXECUTED")
       \/ \E child \in Cycles : Succeeds(r, p, c, child)

LEMMA NothingToShow ==
  ASSUME NEW r, NEW p, p.batches = r.batches, p.journals = r.journals,
         p.approvals = r.approvals, p.executions = r.executions
  PROVE  IsLifeStep(r, p)
BY SameStage DEF IsLifeStep

LEMMA BatchIsAStep ==
  ASSUME NEW r, NEW p, IsSound(r), IsSound(p),
         ValidDecisionGraph(r), ValidDecisionGraph(p),
         Grows(r, p), AddsABatch(p, r)
  PROVE  IsLifeStep(r, p)
<1>1. /\ p.journals = r.journals
      /\ p.approvals = r.approvals /\ p.executions = r.executions
  BY DEF Grows, AddsABatch, AddsNoOutcome
<1>2. PICK b \in p.batches :
        /\ p.batches = r.batches \cup {b}
        /\ b.parent # NoId =>
             /\ Of(p.executions, b.parent) = {}
             /\ \E a \in Of(r.approvals, b.parent) : a.decision = "REJECTED"
  BY DEF Grows, AddsABatch
<1>3. CASE b \in r.batches
  BY <1>1, <1>2, <1>3, NothingToShow
<1>4. CASE b \notin r.batches
  <2> DEFINE c == b.cycle
  <2>1. c \in Cycles /\ b.parent \in Cycles \cup {NoId}
    BY DEF IsSound, Runs, Batches
  <2>2. Of(r.batches, c) = {} /\ Of(p.batches, c) # {}
    BY <1>2, <1>4 DEF IsSound, OnePerCycle, Of
  <2>3. Of(r.journals, c) = {} /\ Of(p.journals, c) = {}
    BY <1>1, <2>2, Researched
  <2>4. Stage(r, c) = "ABSENT"
    BY <2>2 DEF Stage
  <2>5. Stage(p, c) = "RESEARCHED"
    <3>1. /\ Of(p.approvals, c) = {} /\ Of(p.executions, c) = {}
          /\ \A x \in p.batches : x.parent # c
      BY <2>1, <2>3, Undecided
    <3> QED
      BY <2>2, <2>3, <3>1 DEF Stage, HasOutcome
  <2>6. ASSUME NEW o \in Cycles, o # c, o # b.parent
        PROVE  Stage(p, o) = Stage(r, o)
    <3>1. Of(p.batches, o) = Of(r.batches, o)
      BY <1>2, <2>6 DEF Of
    <3>2. (\E x \in p.batches : x.parent = o) <=> (\E x \in r.batches : x.parent = o)
      BY <1>2, <2>6
    <3> QED
      BY <1>1, <3>1, <3>2, SameStage
  <2>7. CASE b.parent = NoId
    <3>1. \A o \in Cycles : o # b.parent
      BY <2>7, IdAssumption
    <3> QED
      BY <2>1, <2>4, <2>5, <2>6, <3>1 DEF IsLifeStep, Moves
  <2>8. CASE b.parent # NoId
    <3> DEFINE parent == b.parent
    <3>1. PICK a \in Of(r.approvals, parent) : a.decision = "REJECTED"
      BY <1>2, <2>8
    <3>2. Of(r.journals, parent) # {}
      BY DEF IsSound, IsDated, Of
    <3>3. Of(r.batches, parent) # {} /\ Of(p.batches, parent) # {}
      BY <1>1, <3>2, Researched
    <3>4. Of(r.executions, parent) = {} /\ Of(p.executions, parent) = {}
      BY <1>1, <1>2, <2>8
    <3>5. \A x \in r.batches : x.parent # parent
      BY <1>2, <1>4, <2>8 DEF IsSound, IsAChain
    <3>6. ~HasOutcome(r, parent, "APPROVED") /\ HasOutcome(r, parent, "REJECTED")
      BY <3>1 DEF HasOutcome, ValidDecisionGraph, OnePerCycle, Of
    <3>7. Stage(r, parent) = "REJECTED"
      BY <3>3, <3>4, <3>5, <3>6 DEF Stage
    <3>8. Stage(p, parent) = "REVISED"
      BY <3>3, <3>4 DEF Stage
    <3>9. parent # c
      BY <2>2, <3>3
    <3> QED
      BY <2>1, <2>4, <2>5, <2>6, <2>8, <3>7, <3>8, <3>9 DEF IsLifeStep, Succeeds
  <2> QED
    BY <2>7, <2>8
<1> QED
  BY <1>3, <1>4

LEMMA JournalIsAStep ==
  ASSUME NEW r, NEW p, IsSound(r), IsSound(p),
         ValidDecisionGraph(r), ValidDecisionGraph(p),
         Grows(r, p), AddsAJournal(p, r)
  PROVE  IsLifeStep(r, p)
<1>1. /\ p.batches = r.batches
      /\ p.approvals = r.approvals /\ p.executions = r.executions
  BY DEF Grows, AddsAJournal, AddsNoOutcome
<1>2. PICK j \in p.journals : p.journals = r.journals \cup {j}
  BY DEF Grows, AddsAJournal
<1>3. CASE j \in r.journals
  BY <1>1, <1>2, <1>3, NothingToShow
<1>4. CASE j \notin r.journals
  <2> DEFINE c == j.cycle
  <2>1. c \in Cycles
    BY DEF IsSound, Runs, Journals
  <2>2. Of(r.journals, c) = {} /\ Of(p.journals, c) # {}
    BY <1>2, <1>4 DEF ValidDecisionGraph, OnePerCycle, Of
  <2>3. /\ Of(r.approvals, c) = {} /\ Of(r.executions, c) = {}
        /\ \A b \in r.batches : b.parent # c
    BY <2>1, <2>2, Undecided
  <2>4. Of(r.batches, c) # {}
    BY <1>1, <2>2, Researched
  <2>5. Stage(r, c) = "RESEARCHED"
    BY <2>2, <2>3, <2>4 DEF Stage, HasOutcome
  <2>6. Stage(p, c) = "JOURNALED"
    BY <1>1, <2>2, <2>3, <2>4 DEF Stage, HasOutcome
  <2>7. \A o \in Cycles \ {c} : Stage(p, o) = Stage(r, o)
    <3> SUFFICES ASSUME NEW o \in Cycles, o # c PROVE Stage(p, o) = Stage(r, o)
      OBVIOUS
    <3>1. Of(p.journals, o) = Of(r.journals, o)
      BY <1>2 DEF Of
    <3> QED
      BY <1>1, <3>1, SameStage
  <2> QED
    BY <2>1, <2>5, <2>6, <2>7 DEF IsLifeStep, Moves
<1> QED
  BY <1>3, <1>4

LEMMA OutcomeIsAStep ==
  ASSUME NEW r, NEW p, IsSound(r), IsSound(p),
         ValidDecisionGraph(r), ValidDecisionGraph(p),
         Grows(r, p), AddsAnOutcome(p, r)
  PROVE  IsLifeStep(r, p)
<1>1. /\ p.batches = r.batches
      /\ p.journals = r.journals /\ p.executions = r.executions
  BY DEF Grows, AddsAnOutcome, AddsNoDecision
<1>2. PICK a \in p.approvals : p.approvals = r.approvals \cup {a}
  BY DEF Grows, AddsAnOutcome
<1>3. CASE a \in r.approvals
  BY <1>1, <1>2, <1>3, NothingToShow
<1>4. CASE a \notin r.approvals
  <2> DEFINE c == a.cycle
  <2>1. c \in Cycles /\ a.decision \in {"APPROVED", "REJECTED"}
    BY DEF IsSound, Runs, Approvals
  <2>2. Of(r.approvals, c) = {} /\ Of(p.approvals, c) = {a}
    BY <1>2, <1>4 DEF ValidDecisionGraph, OnePerCycle, Of
  <2>3. Of(r.journals, c) # {} /\ Of(r.batches, c) # {}
    BY <1>1, Researched DEF IsSound, IsDated, Of
  <2>4. Of(r.executions, c) = {} /\ \A b \in r.batches : b.parent # c
    BY <2>1, <2>2, WithoutOutcome
  <2>5. Stage(r, c) = "JOURNALED"
    BY <2>2, <2>3, <2>4 DEF Stage, HasOutcome
  <2>6. Stage(p, c) = a.decision
    BY <1>1, <2>1, <2>2, <2>3, <2>4 DEF Stage, HasOutcome
  <2>7. \A o \in Cycles \ {c} : Stage(p, o) = Stage(r, o)
    <3> SUFFICES ASSUME NEW o \in Cycles, o # c PROVE Stage(p, o) = Stage(r, o)
      OBVIOUS
    <3>1. Of(p.approvals, o) = Of(r.approvals, o)
      BY <1>2 DEF Of
    <3> QED
      BY <1>1, <3>1, SameStage
  <2> QED
    BY <2>1, <2>5, <2>6, <2>7 DEF IsLifeStep, Moves
<1> QED
  BY <1>3, <1>4

LEMMA ExecutionIsAStep ==
  ASSUME NEW r, NEW p, IsSound(r), IsSound(p),
         ValidDecisionGraph(r), ValidDecisionGraph(p),
         Grows(r, p), AddsAnExecution(p, r)
  PROVE  IsLifeStep(r, p)
<1>1. /\ p.batches = r.batches
      /\ p.journals = r.journals /\ p.approvals = r.approvals
  BY DEF Grows, AddsAnExecution, AddsNoDecision
<1>2. PICK e \in p.executions :
        /\ p.executions = r.executions \cup {e}
        /\ \E a \in Of(r.approvals, e.cycle) : a.decision = "APPROVED"
  BY DEF Grows, AddsAnExecution
<1>3. CASE e \in r.executions
  BY <1>1, <1>2, <1>3, NothingToShow
<1>4. CASE e \notin r.executions
  <2> DEFINE c == e.cycle
  <2>1. c \in Cycles
    BY DEF IsSound, Runs, Executions
  <2>2. Of(r.executions, c) = {} /\ Of(p.executions, c) # {}
    BY <1>2, <1>4 DEF ValidDecisionGraph, OnePerCycle, Of
  <2>3. PICK a \in Of(r.approvals, c) : a.decision = "APPROVED"
    BY <1>2
  <2>4. Of(r.journals, c) # {} /\ Of(r.batches, c) # {}
    BY Researched DEF IsSound, IsDated, Of
  <2>5. \A b \in r.batches : b.parent # c
    BY <2>1, <2>3, IdAssumption
    DEF IsSound, IsAChain, ValidDecisionGraph, OnePerCycle, Of
  <2>6. Stage(r, c) = "APPROVED"
    BY <2>2, <2>3, <2>4, <2>5 DEF Stage, HasOutcome
  <2>7. Stage(p, c) = "EXECUTED"
    BY <1>1, <2>2, <2>4 DEF Stage
  <2>8. \A o \in Cycles \ {c} : Stage(p, o) = Stage(r, o)
    <3> SUFFICES ASSUME NEW o \in Cycles, o # c PROVE Stage(p, o) = Stage(r, o)
      OBVIOUS
    <3>1. Of(p.executions, o) = Of(r.executions, o)
      BY <1>2 DEF Of
    <3> QED
      BY <1>1, <3>1, SameStage
  <2> QED
    BY <2>1, <2>6, <2>7, <2>8 DEF IsLifeStep, Moves
<1> QED
  BY <1>3, <1>4

(***************************************************************************)
(* Whatever threads save, stale or not, every cycle follows its lifecycle. *)
(***************************************************************************)
THEOREM LifecycleIsFollowed == Spec => LifecycleIsImplemented
<1> DEFINE stages == [c \in Cycles |-> Stage(run, c)]
<1>1. Init => Lifecycle!Init
  BY DEF Init, NewRun, Lifecycle!Init, Stage, Of
<1>2. Inv /\ Inv' /\ Pending /\ [Next]_vars => [Lifecycle!Next]_stages
  <2> SUFFICES ASSUME Inv, Inv', Pending, [Next]_vars
               PROVE  [Lifecycle!Next]_stages
    OBVIOUS
  <2>1. CASE UNCHANGED run
    BY <2>1
  <2>2. CASE \E t \in Threads : /\ ~Idle(t) /\ run' = proposals[t]
                                /\ Accepts(run, proposals[t]) /\ Grows(run, run')
    <3>1. Grows(run, run') /\ AddsOneRecord(run', run)
      BY <2>2 DEF Pending, IsPending
    <3>2. /\ IsSound(run) /\ IsSound(run')
          /\ ValidDecisionGraph(run) /\ ValidDecisionGraph(run')
      BY DEF Inv
    <3>3. IsLifeStep(run, run')
      <4>1. CASE AddsNoDecision(run', run) /\ AddsNoOutcome(run', run)
        <5>1. /\ run'.batches = run.batches /\ run'.journals = run.journals
              /\ run'.approvals = run.approvals /\ run'.executions = run.executions
          BY <3>1, <4>1 DEF AddsNoDecision, AddsNoOutcome, Grows
        <5> QED
          BY <5>1, NothingToShow
      <4> QED
        BY <3>1, <3>2, <4>1, BatchIsAStep, JournalIsAStep, OutcomeIsAStep,
           ExecutionIsAStep DEF AddsOneRecord
    <3>4. stages' = [c \in Cycles |-> Stage(run', c)]
      BY DEF Stage, HasOutcome
    <3>5. CASE \A c \in Cycles : Stage(run', c) = Stage(run, c)
      BY <3>4, <3>5
    <3>6. ASSUME NEW c \in Cycles, NEW from, NEW to, Moves(run, run', c, from, to)
          PROVE  Lifecycle!Advance(c, from, to)
      BY <3>4, <3>6 DEF Moves, Lifecycle!Advance
    <3>7. ASSUME NEW c \in Cycles, NEW child \in Cycles, Succeeds(run, run', c, child)
          PROVE  Lifecycle!Revise(c, child)
      BY <3>4, <3>7 DEF Succeeds, Lifecycle!Revise
    <3> QED
      BY <3>3, <3>5, <3>6, <3>7 DEF IsLifeStep, Lifecycle!Next
  <2> QED
    BY <2>1, <2>2, OnlySavesChangeTheRun
<1> QED
  BY <1>1, <1>2, InvIsInductive, PendingIsInductive, PTL
  DEF Spec, LifecycleIsImplemented, Lifecycle!Spec
=============================================================================
