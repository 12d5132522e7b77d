----------------------------- MODULE PriceRefresh -----------------------------
(***************************************************************************)
(* The durable price refresh: RefreshPricesService.refresh over            *)
(* SQLitePriceRefreshState, the operator's recovery of an interrupted      *)
(* refresh, and the other commands of the run, which replace the same      *)
(* aggregate from a snapshot of their own.                                 *)
(*                                                                         *)
(* Every request is served by a thread of its own (FastAPI's pool) and is  *)
(* a session here: it reads the aggregate, computes its proposal from that *)
(* snapshot and saves the proposal in a later step.  The process may crash *)
(* between any two steps; only the database survives.                      *)
(***************************************************************************)
EXTENDS LocalRunStore

CONSTANTS
  Refreshers,    \* threads serving POST /commands/refresh-prices
  Operators,     \* threads serving POST /commands/recover-price-refresh
  Writers,       \* threads serving any other command that saves
  Operations,    \* operation ids (uuid4), each used once
  Quotes,        \* price observations: key = (security, observed_at)
  Batches,       \* what the provider may return for the required securities
  Artifacts,     \* what the other commands append
  MaxCrashes     \* bound on restarts of the process

Clients == Refreshers \cup Operators \cup Writers

ASSUME ClientsAssumption ==
  /\ Refreshers \cap Operators = {}
  /\ Refreshers \cap Writers = {}
  /\ Operators \cap Writers = {}
  /\ NoId \notin Clients

ASSUME DataAssumption ==
  /\ NoId \notin Operations
  /\ \A a \in Quotes \cup Artifacts :
       a = [key |-> a.key, value |-> a.value]
  /\ \A q \in Quotes, a \in Artifacts : q.key # a.key
  /\ UniqueKeys(Artifacts)
  /\ \A batch \in Batches :
       batch # {} /\ batch \subseteq Quotes /\ UniqueKeys(batch)

ASSUME BoundAssumption == MaxCrashes \in Nat

VARIABLES
  db,            \* the persisted aggregate
  used,          \* operation ids handed out so far
  sessions,      \* the requests in flight
  crashes,       \* restarts so far
  ended,         \* history: operations that were terminal in some past state
  persistedBy    \* history: the observations each operation added

vars == <<db, used, sessions, crashes, ended, persistedBy>>

TerminalStatuses == {"COMPLETED", "FAILED"}

OperationRecords ==
  {NoOperation} \cup
  {InProgress(id) : id \in Operations} \cup
  {Terminated(id, status, c) :
     id \in Operations, status \in TerminalStatuses, c \in Clients}

(* What the refresh and the other commands have to keep from each other:   *)
(* the latest operation, the observations, the histories' mark-to-market   *)
(* pairs (by the operation that appended them), everything else.           *)
Aggregates == [operation    : OperationRecords,
               observations : SUBSET Quotes,
               marks        : SUBSET Operations,
               artifacts    : SUBSET Artifacts]

EmptyRun == [operation |-> NoOperation, observations |-> {},
             marks |-> {}, artifacts |-> {}]

Phases == {"idle", "begin", "fetch", "complete", "failing", "fail",
           "recover", "save"}

Sessions ==
  {s \in [phase : Phases, id : Operations \cup {NoId}, proposed : Aggregates] :
     s.id = NoId <=> s.phase \in {"idle", "save"}}

IdleSession == [phase |-> "idle", id |-> NoId, proposed |-> EmptyRun]

TypeOK ==
  /\ db \in Aggregates
  /\ used \in SUBSET Operations
  /\ sessions \in [Clients -> Sessions]
  /\ crashes \in 0..MaxCrashes
  /\ ended \in SUBSET Operations
  /\ persistedBy \in [Operations -> SUBSET Quotes]

Init ==
  /\ db = EmptyRun
  /\ used = {}
  /\ sessions = [c \in Clients |-> IdleSession]
  /\ crashes = 0
  /\ ended = {}
  /\ persistedBy = [o \in Operations |-> {}]

-----------------------------------------------------------------------------
(* save_transition: the proposal is judged against the database as it is   *)
(* now, not as it was when the session read it.                            *)

(* Mutant: the other commands' artifacts are not compared. *)
AcceptsLoss(current, proposed) ==
  /\ RequireImmutableRecords(current.observations, proposed.observations)
  /\ RequirePriceRefreshOperation(current.operation, proposed.operation)

(* Mutant: the last writer wins. *)
AcceptsAnything(current, proposed) == UniqueKeys(proposed.observations)

Accepts(current, proposed) ==
  /\ RequireImmutableRecords(current.observations, proposed.observations)
  /\ RequireImmutableRecords(current.artifacts, proposed.artifacts)
  /\ RequireImmutableRecords(current.marks, proposed.marks)
  /\ RequirePriceRefreshOperation(current.operation, proposed.operation)
  /\ UniqueKeys(proposed.observations)

Enter(c, phase, id, proposed) ==
  sessions' = [sessions EXCEPT ![c] =
                 [phase |-> phase, id |-> id, proposed |-> proposed]]

Leave(c) == sessions' = [sessions EXCEPT ![c] = IdleSession]

(* The commit: proposed becomes the database.                              *)
Saves(c) ==
  LET proposed == sessions[c].proposed
      writer   == proposed.operation.id
  IN /\ Accepts(db, proposed)
     /\ db' = proposed
     /\ ended' = IF IsTerminal(proposed.operation)
                 THEN ended \cup {writer} ELSE ended
     /\ persistedBy' =
          IF sessions[c].phase = "complete"
          THEN [persistedBy EXCEPT ![writer] =
                  @ \cup (proposed.observations \ db.observations)]
          ELSE persistedBy
     /\ UNCHANGED <<used, crashes>>

(* The save raises: the proposal is stale, or the write lock timed out.    *)
SaveRaises == UNCHANGED <<db, used, crashes, ended, persistedBy>>

Reads == UNCHANGED <<db, crashes, ended, persistedBy>>

-----------------------------------------------------------------------------
(* RefreshPricesService.refresh *)

(* begin_price_refresh reads the run; an active operation is a conflict    *)
(* (409) and leaves everything as it was.                                  *)
BeginRefresh(c) ==
  /\ sessions[c].phase = "idle"
  /\ db.operation.status # "IN_PROGRESS"
  /\ \E id \in Operations \ used :
       /\ used' = used \cup {id}
       /\ Enter(c, "begin", id, [db EXCEPT !.operation = InProgress(id)])
  /\ Reads

(* Begin is outside the try block: if its save raises, nothing was begun.  *)
SaveBegin(c) ==
  /\ sessions[c].phase = "begin"
  /\ \/ Saves(c) /\ Enter(c, "fetch", sessions[c].id, EmptyRun)
     \/ SaveRaises /\ Leave(c)

(* The additions of a batch: the observations whose identity is new.       *)
Additions(batch, run) ==
  {q \in batch : \A r \in run.observations : r.key # q.key}

RewritesQuote(batch, run) ==
  \E q \in batch, r \in run.observations : q.key = r.key /\ q # r

(* Mutant: the histories are marked without a new quote. *)
MarksAlways(id, additions) == {{}, {id}}

(* What mark-to-market may append: nothing without additions; with some,   *)
(* it depends on the benchmark status, the holdings and the time of the    *)
(* last snapshots, which PairedLedger models.                              *)
Marks(id, additions) == IF additions = {} THEN {{}} ELSE {{}, {id}}

IsCurrent(id, run) == run.operation.id = id

(***************************************************************************)
(* The provider has answered for every required security;                  *)
(* complete_price_refresh reads the run, keeps the new observations and    *)
(* marks the operation COMPLETED.  With additions the mark-to-market       *)
(* service may append to both histories (PairedLedger has the conditions). *)
(***************************************************************************)
FetchAll(c) ==
  /\ sessions[c].phase = "fetch"
  /\ \E batch \in Batches :
       LET id        == sessions[c].id
           additions == Additions(batch, db)
       IN /\ IsCurrent(id, db)
          /\ ~RewritesQuote(batch, db)
          /\ \E marked \in Marks(id, additions) :
               Enter(c, "complete", id,
                 [db EXCEPT !.operation = Terminated(id, "COMPLETED", c),
                            !.observations = @ \cup additions,
                            !.marks = @ \cup marked])
  /\ Reads /\ UNCHANGED used

(* The provider fails, or complete_price_refresh raises before it saves.   *)
FetchRaises(c) ==
  /\ sessions[c].phase = "fetch"
  /\ Enter(c, "failing", sessions[c].id, EmptyRun)
  /\ Reads /\ UNCHANGED used

SaveComplete(c) ==
  /\ sessions[c].phase = "complete"
  /\ \/ Saves(c) /\ Leave(c)
     \/ SaveRaises /\ Enter(c, "failing", sessions[c].id, EmptyRun)

(* fail_price_refresh reads the run and raises when another operation is   *)
(* the latest; it does not ask whether its own is still in progress.       *)
FailRefresh(c) ==
  /\ sessions[c].phase = "failing"
  /\ IF IsCurrent(sessions[c].id, db)
     THEN Enter(c, "fail", sessions[c].id,
            [db EXCEPT !.operation = Terminated(sessions[c].id, "FAILED", c)])
     ELSE Leave(c)
  /\ Reads /\ UNCHANGED used

SaveFail(c) ==
  /\ sessions[c].phase = "fail"
  /\ Saves(c) \/ SaveRaises
  /\ Leave(c)

-----------------------------------------------------------------------------
(* recover_interrupted_price_refresh *)

(* Mutant: recovery does not ask whether an operation is in progress.      *)
RecoverAnything(c) ==
  /\ sessions[c].phase = "idle"
  /\ Enter(c, "recover", db.operation.id,
       [db EXCEPT !.operation = Terminated(db.operation.id, "FAILED", c)])
  /\ Reads /\ UNCHANGED used

RecoverRefresh(c) ==
  /\ sessions[c].phase = "idle"
  /\ db.operation.status = "IN_PROGRESS"
  /\ Enter(c, "recover", db.operation.id,
       [db EXCEPT !.operation = Terminated(db.operation.id, "FAILED", c)])
  /\ Reads /\ UNCHANGED used

Recovers(c) == /\ sessions[c].phase = "recover"
               /\ Saves(c)
               /\ Leave(c)

SaveRecover(c) == \/ Recovers(c)
                  \/ /\ sessions[c].phase = "recover"
                     /\ SaveRaises
                     /\ Leave(c)

-----------------------------------------------------------------------------
(* Any other command: the snapshot with one artifact more, saved later.    *)

InFlight(a) == \E c \in Writers : a \in sessions[c].proposed.artifacts

ReadRun(c) ==
  /\ sessions[c].phase = "idle"
  /\ \E a \in Artifacts \ db.artifacts :
       /\ ~InFlight(a)
       /\ Enter(c, "save", NoId, [db EXCEPT !.artifacts = @ \cup {a}])
  /\ Reads /\ UNCHANGED used

SaveTransition(c) ==
  /\ sessions[c].phase = "save"
  /\ Saves(c) \/ SaveRaises
  /\ Leave(c)

(* The process dies and is started again.                                  *)
Crash ==
  /\ crashes < MaxCrashes
  /\ \E c \in Clients : sessions[c].phase # "idle"
  /\ crashes' = crashes + 1
  /\ sessions' = [c \in Clients |-> IdleSession]
  /\ UNCHANGED <<db, used, ended, persistedBy>>

-----------------------------------------------------------------------------

RefreshStep(c) == \/ BeginRefresh(c) \/ SaveBegin(c)
                  \/ FetchAll(c) \/ FetchRaises(c) \/ SaveComplete(c)
                  \/ FailRefresh(c) \/ SaveFail(c)

Next == \/ \E c \in Refreshers : RefreshStep(c)
        \/ \E c \in Operators : RecoverRefresh(c) \/ SaveRecover(c)
        \/ \E c \in Writers : ReadRun(c) \/ SaveTransition(c)
        \/ Crash

(***************************************************************************)
(* A thread that is serving a request goes on (WF).  Of the operator: while *)
(* an operation stays IN_PROGRESS, recovery is asked for again, and the     *)
(* write lock does not time out on it for ever (SF).  No request has to     *)
(* arrive and no crash has to happen.                                       *)
(***************************************************************************)
Fairness ==
  /\ \A c \in Refreshers :
       WF_vars(SaveBegin(c) \/ FetchAll(c) \/ FetchRaises(c)
                 \/ SaveComplete(c) \/ FailRefresh(c) \/ SaveFail(c))
  /\ \A c \in Writers : WF_vars(SaveTransition(c))
  /\ \A c \in Operators : /\ WF_vars(RecoverRefresh(c))
                          /\ WF_vars(SaveRecover(c))
                          /\ SF_vars(Recovers(c))

Spec == Init /\ [][Next]_vars

FairSpec == Spec /\ Fairness

-----------------------------------------------------------------------------
(* Properties *)

(***************************************************************************)
(* At most one refresh is live.  A refresh that has begun and whose        *)
(* operation nobody has terminated is the latest operation and is in       *)
(* progress, however many requests, recoveries and stale saves overlap: it *)
(* can neither be displaced by a second refresh nor terminated behind the  *)
(* database's back.                                                        *)
(***************************************************************************)
ActiveRefreshIsLatest ==
  \A c \in Refreshers :
    /\ sessions[c].phase \in {"fetch", "complete", "failing", "fail"}
    /\ sessions[c].id \notin ended
    => db.operation = InProgress(sessions[c].id)

(***************************************************************************)
(* A refresh is all or nothing: the operation the status endpoint shows as *)
(* FAILED or IN_PROGRESS has added no observation, although recovery, the  *)
(* worker's own failure path and its completion may all be under way.      *)
(***************************************************************************)
UnfinishedPersistedNothing ==
  db.operation.status \in {"IN_PROGRESS", "FAILED"}
    => persistedBy[db.operation.id] = {}

(***************************************************************************)
(* A mark-to-market pair is on record only if the refresh that appended it *)
(* really added a quote: a completion computed from a stale snapshot never *)
(* leaves a valuation point without the new observation it was made for.   *)
(***************************************************************************)
MarksHaveQuotes == \A id \in db.marks : persistedBy[id] # {}

(***************************************************************************)
(* The store's own words (sqlite_local_state.py:289, test_reopened_adapter_*)
(* recovers_interrupted_operation_before_new_refresh): an operation that   *)
(* was terminal once is never the operation in progress again.             *)
(***************************************************************************)
TerminalOperationsAreImmutable ==
  db.operation.status = "IN_PROGRESS" => db.operation.id \notin ended

(* The observations and the other artifacts implement the append-only      *)
(* ledger: whatever the threads do with their stale snapshots, nothing     *)
(* that was saved is lost and no quote gets a second value.                *)
Ledger == INSTANCE AppendOnlyLedger
            WITH Facts <- Quotes \cup Artifacts,
                 facts <- db.observations \cup db.artifacts

NothingSavedIsLost == Ledger!Spec

(* An interrupted refresh does not block refreshes for ever: with an       *)
(* operator who keeps asking, the operation in progress is terminated.     *)
InterruptedIsRecovered ==
  db.operation.status = "IN_PROGRESS" ~> db.operation.status # "IN_PROGRESS"

=============================================================================
