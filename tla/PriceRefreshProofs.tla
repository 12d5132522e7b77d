-------------------------- MODULE PriceRefreshProofs --------------------------
(***************************************************************************)
(* Proofs about PriceRefresh, for every number of threads, operations,     *)
(* observations and crashes.                                               *)
(*                                                                         *)
(* The invariants are not inductive alone: what matters is what a stale    *)
(* proposal, computed long ago, can still do to the database when it is    *)
(* saved.  IInv says so, session by session.                               *)
(***************************************************************************)
EXTENDS PriceRefresh, TLAPS

(* The phases each kind of thread goes through, and what it then proposes. *)
Shape(c, s, ids) ==
  /\ s.phase \in {"begin", "fetch", "complete", "failing", "fail"}
       => c \in Refreshers /\ s.id \in ids
  /\ s.phase = "begin" => s.proposed.operation = InProgress(s.id)
  /\ s.phase = "complete"
       => s.proposed.operation = Terminated(s.id, "COMPLETED", c)
  /\ s.phase = "fail"
       => s.proposed.operation = Terminated(s.id, "FAILED", c)
  /\ s.phase = "recover" =>
       /\ c \in Operators
       /\ \E id \in Operations :
            s.proposed.operation = Terminated(id, "FAILED", c)
  /\ s.phase = "save" => c \in Writers
  /\ s.phase \in {"idle", "fetch", "failing"} => s.proposed = EmptyRun

(* Only a completion proposes observations or marks beyond the database's. *)
Behind(s) ==
  /\ s.phase # "complete" => s.proposed.observations \subseteq db.observations
  /\ s.proposed.marks \subseteq
       db.marks \cup (IF s.phase = "complete" THEN {s.id} ELSE {})

(* A snapshot that shows an operation in progress misses what that         *)
(* operation has added since.                                              *)
Stale(s) ==
  \A id \in Operations :
    persistedBy[id] # {} /\ s.proposed.operation = InProgress(id)
      => ~(persistedBy[id] \subseteq s.proposed.observations)

(* An operation id nobody has used leaves no trace.                        *)
Fresh(id) ==
  /\ persistedBy[id] = {}
  /\ db.operation.id # id
  /\ \A c \in Clients : sessions[c].proposed.operation.id # id

(* What the thread of a refresh alone may write, it has not written yet.   *)
Unwritten(c) ==
  \A status \in TerminalStatuses :
    LET mine == Terminated(sessions[c].id, status, c)
    IN /\ db.operation # mine
       /\ \A d \in Clients : d # c => sessions[d].proposed.operation # mine

(* A completion that marks the histories brings an observation that is     *)
(* new to every snapshot in which its operation is in progress.            *)
BringsQuote(c) ==
  LET s == sessions[c]
  IN s.phase = "complete" /\ s.id \in s.proposed.marks \ db.marks =>
       /\ db.operation = InProgress(s.id)
            => ~(s.proposed.observations \subseteq db.observations)
       /\ \A d \in Clients :
            sessions[d].proposed.operation = InProgress(s.id)
              => ~(s.proposed.observations
                     \subseteq sessions[d].proposed.observations)

DatabaseInv ==
  /\ UniqueKeys(db.observations)
  /\ \A id \in Operations : persistedBy[id] \subseteq db.observations
  /\ \A id \in Operations :
       persistedBy[id] # {} /\ db.operation.id = id
         => db.operation.status = "COMPLETED"
  /\ \A id \in Operations \ used : Fresh(id)

SessionOK(c) ==
  LET s == sessions[c]
  IN /\ Shape(c, s, used)
     /\ Behind(s)
     /\ Stale(s)
     /\ s.phase = "begin" => persistedBy[s.id] = {}
     /\ s.phase # "begin" /\ db.operation = NoOperation
          => s.proposed.operation = NoOperation
     /\ s.phase # "idle" /\ c \in Refreshers => Unwritten(c)
     /\ BringsQuote(c)

SessionInv == \A c \in Clients : SessionOK(c)

OwnIds ==
  \A c, d \in Refreshers :
    c # d /\ sessions[c].phase # "idle" /\ sessions[d].phase # "idle"
      => sessions[c].id # sessions[d].id

IInv == /\ TypeOK
        /\ DatabaseInv
        /\ SessionInv
        /\ OwnIds
        /\ ActiveRefreshIsLatest
        /\ MarksHaveQuotes
-----------------------------------------------------------------------------
(* The aggregates the sessions propose have the type of an aggregate.      *)
LEMMA AggregateUpdates ==
  ASSUME NEW run \in Aggregates
  PROVE  /\ \A id \in Operations :
              [run EXCEPT !.operation = InProgress(id)] \in Aggregates
         /\ \A id \in Operations, c \in Clients,
              status \in {"COMPLETED", "FAILED"} :
              [run EXCEPT !.operation = Terminated(id, status, c)] \in Aggregates
         /\ \A id \in Operations, c \in Clients,
              quotes \in SUBSET Quotes, marked \in SUBSET Operations :
              [run EXCEPT !.operation = Terminated(id, "COMPLETED", c),
                          !.observations = @ \cup quotes,
                          !.marks = @ \cup marked] \in Aggregates
         /\ \A a \in Artifacts :
              [run EXCEPT !.artifacts = @ \cup {a}] \in Aggregates
<1> USE DEF Aggregates
<1>1. \A id \in Operations : InProgress(id) \in OperationRecords
  BY DEF OperationRecords
<1>2. \A id \in Operations, c \in Clients, status \in {"COMPLETED", "FAILED"} :
        Terminated(id, status, c) \in OperationRecords
  BY DEF OperationRecords, TerminalStatuses
<1>3. ASSUME NEW id \in Operations
      PROVE  [run EXCEPT !.operation = InProgress(id)] \in Aggregates
  BY <1>1
<1>4. ASSUME NEW id \in Operations, NEW c \in Clients,
             NEW status \in {"COMPLETED", "FAILED"}
      PROVE  [run EXCEPT !.operation = Terminated(id, status, c)] \in Aggregates
  BY <1>2
<1>5. ASSUME NEW id \in Operations, NEW c \in Clients,
             NEW quotes \in SUBSET Quotes, NEW marked \in SUBSET Operations
      PROVE  [run EXCEPT !.operation = Terminated(id, "COMPLETED", c),
                         !.observations = @ \cup quotes,
                         !.marks = @ \cup marked] \in Aggregates
  BY <1>2
<1>6. \A a \in Artifacts : [run EXCEPT !.artifacts = @ \cup {a}] \in Aggregates
  OBVIOUS
<1> QED
  BY <1>3, <1>4, <1>5, <1>6

LEMMA EmptyRunType == EmptyRun \in Aggregates /\ IdleSession \in Sessions
BY DEF EmptyRun, IdleSession, Sessions, Phases, Aggregates, OperationRecords,
       NoOperation

(* Type correctness of the whole state, the histories included.            *)
LEMMA TypeInit == Init => TypeOK
BY EmptyRunType, BoundAssumption DEF Init, TypeOK, EmptyRun, Aggregates

LEMMA TypeNext == TypeOK /\ [Next]_vars => TypeOK'
<1> SUFFICES ASSUME TypeOK, [Next]_vars PROVE TypeOK'
  OBVIOUS
<1> USE DEF TypeOK
<1>1. \A c \in Clients :
        /\ sessions[c].proposed \in Aggregates
        /\ sessions[c].phase \notin {"idle", "save"} => sessions[c].id \in Operations
  BY DEF Sessions
<1>2. ASSUME NEW c \in Clients, NEW phase \in Phases,
             NEW id \in Operations \cup {NoId}, NEW run \in Aggregates,
             id = NoId <=> phase \in {"idle", "save"},
             Enter(c, phase, id, run)
      PROVE  sessions' \in [Clients -> Sessions]
  <2> DEFINE s == [phase |-> phase, id |-> id, proposed |-> run]
  <2>1. s \in Sessions
    BY <1>2 DEF Sessions
  <2>2. sessions' = [sessions EXCEPT ![c] = s]
    BY <1>2 DEF Enter
  <2> QED
    BY <2>1, <2>2
<1>3. ASSUME NEW c \in Clients, Leave(c)
      PROVE  sessions' \in [Clients -> Sessions]
  BY <1>3, EmptyRunType DEF Leave
<1>4. ASSUME NEW c \in Clients, Saves(c)
      PROVE  /\ db' \in Aggregates
             /\ used' \in SUBSET Operations
             /\ crashes' \in 0..MaxCrashes
             /\ ended' \in SUBSET Operations
             /\ persistedBy' \in [Operations -> SUBSET Quotes]
  <2> DEFINE run == sessions[c].proposed
  <2>1. /\ run \in Aggregates
        /\ db' = run
        /\ used' = used /\ crashes' = crashes
        /\ ended' = IF IsTerminal(run.operation)
                    THEN ended \cup {run.operation.id} ELSE ended
    BY <1>1, <1>4 DEF Saves
  <2>2. ended' \in SUBSET Operations
    BY <2>1, DataAssumption DEF IsTerminal, Aggregates, OperationRecords, NoOperation,
       InProgress, Terminated
  <2>3. persistedBy' \in [Operations -> SUBSET Quotes]
    BY <1>1, <1>4 DEF Saves, Aggregates
  <2> QED
    BY <2>1, <2>2, <2>3
<1>5. ASSUME SaveRaises \/ (Reads /\ (UNCHANGED used \/ used' \in SUBSET Operations))
      PROVE  /\ db' \in Aggregates
             /\ used' \in SUBSET Operations
             /\ crashes' \in 0..MaxCrashes
             /\ ended' \in SUBSET Operations
             /\ persistedBy' \in [Operations -> SUBSET Quotes]
  BY <1>5 DEF SaveRaises, Reads
<1>6. ASSUME NEW c \in Clients, Saves(c), sessions' \in [Clients -> Sessions]
      PROVE  TypeOK'
  BY <1>4, <1>6
<1>6a. ASSUME SaveRaises \/ (Reads /\ UNCHANGED used),
              sessions' \in [Clients -> Sessions]
       PROVE  TypeOK'
  BY <1>5, <1>6a
<1>6b. ASSUME NEW c \in Clients, sessions' \in [Clients -> Sessions],
              Saves(c) \/ SaveRaises
       PROVE  TypeOK'
  <2>1. CASE Saves(c)
    BY <1>6, <1>6b, <2>1
  <2>2. CASE SaveRaises
    <3>1. SaveRaises \/ (Reads /\ UNCHANGED used)
      BY <2>2
    <3> QED
      BY <1>6a, <1>6b, <3>1
  <2> QED
    BY <1>6b, <2>1, <2>2
<1>7. ASSUME NEW c \in Refreshers, BeginRefresh(c) PROVE TypeOK'
  <2>1. PICK id \in Operations \ used :
             /\ used' = used \cup {id}
             /\ Enter(c, "begin", id, [db EXCEPT !.operation = InProgress(id)])
    BY <1>7 DEF BeginRefresh
  <2>2. [db EXCEPT !.operation = InProgress(id)] \in Aggregates
    BY AggregateUpdates
  <2>3. sessions' \in [Clients -> Sessions]
    BY <1>2, <2>1, <2>2, DataAssumption DEF Clients, Phases
  <2> QED
    BY <1>5, <1>7, <2>1, <2>3 DEF BeginRefresh
<1>8. ASSUME NEW c \in Refreshers, SaveBegin(c) PROVE TypeOK'
  <2>1. c \in Clients /\ sessions[c].id \in Operations
    BY <1>1, <1>8 DEF SaveBegin, Clients
  <2>2. sessions' \in [Clients -> Sessions]
    BY <1>2, <1>3, <1>8, <2>1, EmptyRunType, DataAssumption DEF SaveBegin, Phases
  <2>3. Saves(c) \/ SaveRaises
    BY <1>8 DEF SaveBegin
  <2> QED
    BY <1>6b, <2>1, <2>2, <2>3
<1>9. ASSUME NEW c \in Refreshers, FetchAll(c) PROVE TypeOK'
  <2>1. PICK batch \in Batches, marked \in SUBSET {sessions[c].id} :
             Enter(c, "complete", sessions[c].id,
               [db EXCEPT
                  !.operation = Terminated(sessions[c].id, "COMPLETED", c),
                  !.observations = @ \cup Additions(batch, db),
                  !.marks = @ \cup marked])
    BY <1>9 DEF FetchAll, Marks
  <2>2. Additions(batch, db) \in SUBSET Quotes
    BY DataAssumption DEF Additions
  <2>3. c \in Clients /\ sessions[c].id \in Operations
    <3>1. c \in Clients
      BY DEF Clients
    <3>2. sessions[c].phase = "fetch"
      BY <1>9 DEF FetchAll
    <3> QED
      BY <1>1, <3>1, <3>2
  <2>4. marked \in SUBSET Operations
    BY <2>3
  <2>5. [db EXCEPT !.operation = Terminated(sessions[c].id, "COMPLETED", c),
                   !.observations = @ \cup Additions(batch, db),
                   !.marks = @ \cup marked] \in Aggregates
    BY <2>2, <2>3, <2>4, AggregateUpdates
  <2>6. sessions' \in [Clients -> Sessions]
    BY <1>2, <2>1, <2>3, <2>5, DataAssumption DEF Phases
  <2> QED
    BY <1>6, <1>6a, <1>9, <2>6 DEF FetchAll
<1>10. ASSUME NEW c \in Refreshers, FetchRaises(c) PROVE TypeOK'
  <2>1. c \in Clients /\ sessions[c].id \in Operations
    BY <1>1, <1>10 DEF FetchRaises, Clients
  <2>2. sessions' \in [Clients -> Sessions]
    BY <1>2, <1>10, <2>1, EmptyRunType, DataAssumption DEF FetchRaises, Phases
  <2> QED
    BY <1>6, <1>6a, <1>10, <2>2 DEF FetchRaises
<1>11. ASSUME NEW c \in Refreshers, SaveComplete(c) PROVE TypeOK'
  <2>1. c \in Clients /\ sessions[c].id \in Operations
    BY <1>1, <1>11 DEF SaveComplete, Clients
  <2>2. sessions' \in [Clients -> Sessions]
    BY <1>2, <1>3, <1>11, <2>1, EmptyRunType, DataAssumption
    DEF SaveComplete, Phases
  <2>3. Saves(c) \/ SaveRaises
    BY <1>11 DEF SaveComplete
  <2> QED
    BY <1>6b, <2>1, <2>2, <2>3
<1>12. ASSUME NEW c \in Refreshers, FailRefresh(c) PROVE TypeOK'
  <2> DEFINE id == sessions[c].id
             run == [db EXCEPT !.operation = Terminated(id, "FAILED", c)]
  <2>1. c \in Clients /\ id \in Operations
    BY <1>1, <1>12 DEF FailRefresh, Clients
  <2>2. run \in Aggregates
    BY <2>1, AggregateUpdates
  <2>3. sessions' \in [Clients -> Sessions]
    BY <1>2, <1>3, <1>12, <2>1, <2>2, DataAssumption DEF FailRefresh, Phases
  <2> QED
    BY <1>6, <1>6a, <1>12, <2>3 DEF FailRefresh
<1>13. ASSUME NEW c \in Refreshers, SaveFail(c) PROVE TypeOK'
  <2>1. c \in Clients /\ Leave(c) /\ (Saves(c) \/ SaveRaises)
    BY <1>13 DEF SaveFail, Clients
  <2> QED
    BY <1>3, <1>6b, <2>1
<1>14. ASSUME NEW c \in Operators, RecoverRefresh(c) PROVE TypeOK'
  <2> DEFINE id == db.operation.id
             run == [db EXCEPT !.operation = Terminated(id, "FAILED", c)]
  <2>1. db.operation \in OperationRecords /\ db.operation.status = "IN_PROGRESS"
    BY <1>14 DEF RecoverRefresh, Aggregates
  <2>2. c \in Clients /\ id \in Operations
    BY <2>1 DEF Clients, OperationRecords, NoOperation, InProgress, Terminated,
                TerminalStatuses
  <2>3. run \in Aggregates
    BY <2>2, AggregateUpdates
  <2>4. sessions' \in [Clients -> Sessions]
    BY <1>2, <1>14, <2>2, <2>3, DataAssumption DEF RecoverRefresh, Phases
  <2> QED
    BY <1>6, <1>6a, <1>14, <2>4 DEF RecoverRefresh
<1>15. ASSUME NEW c \in Operators, SaveRecover(c) PROVE TypeOK'
  <2>1. c \in Clients /\ Leave(c) /\ (Saves(c) \/ SaveRaises)
    BY <1>15 DEF SaveRecover, Recovers, Clients
  <2> QED
    BY <1>3, <1>6b, <2>1
<1>16. ASSUME NEW c \in Writers, ReadRun(c) PROVE TypeOK'
  <2>1. PICK a \in Artifacts :
             Enter(c, "save", NoId, [db EXCEPT !.artifacts = @ \cup {a}])
    BY <1>16 DEF ReadRun
  <2>2. sessions' \in [Clients -> Sessions]
    BY <1>2, <2>1, AggregateUpdates DEF Phases, Clients
  <2> QED
    BY <1>6, <1>6a, <1>16, <2>2 DEF ReadRun
<1>17. ASSUME NEW c \in Writers, SaveTransition(c) PROVE TypeOK'
  <2>1. c \in Clients /\ Leave(c) /\ (Saves(c) \/ SaveRaises)
    BY <1>17 DEF SaveTransition, Clients
  <2> QED
    BY <1>3, <1>6b, <2>1
<1>18. ASSUME Crash PROVE TypeOK'
  <2>1. sessions' \in [Clients -> Sessions]
    BY <1>18, EmptyRunType DEF Crash
  <2>2. crashes' \in 0..MaxCrashes
    BY <1>18, BoundAssumption DEF Crash
  <2> QED
    BY <1>18, <2>1, <2>2 DEF Crash
<1>19. ASSUME UNCHANGED vars PROVE TypeOK'
  BY <1>19 DEF vars
<1> QED
  BY <1>7, <1>8, <1>9, <1>10, <1>11, <1>12, <1>13, <1>14, <1>15, <1>16, <1>17,
     <1>18, <1>19 DEF Next, RefreshStep
-----------------------------------------------------------------------------
(* What a session must satisfy to replace session c while the database     *)
(* stays as it is; ids are the operation ids used once it has.             *)
Admissible(c, s, ids) ==
  /\ Shape(c, s, ids)
  /\ Behind(s)
  /\ Stale(s)
  /\ s.phase = "begin" => persistedBy[s.id] = {}
  /\ s.phase # "begin" /\ db.operation = NoOperation
       => s.proposed.operation = NoOperation
  /\ \A id \in Operations \ ids : s.proposed.operation.id # id
  /\ s.proposed.operation = db.operation \/ s.proposed.operation.by \in {NoId, c}
  /\ s.phase # "idle" /\ c \in Refreshers =>
       /\ \A d \in Refreshers :
            d # c /\ sessions[d].phase # "idle" => sessions[d].id # s.id
       /\ \A status \in TerminalStatuses :
            /\ db.operation # Terminated(s.id, status, c)
            /\ \A d \in Clients : d # c =>
                 sessions[d].proposed.operation # Terminated(s.id, status, c)
  /\ s.phase = "complete" /\ s.id \in s.proposed.marks \ db.marks =>
       /\ ~(s.proposed.observations \subseteq db.observations)
       /\ \A d \in Clients : d # c /\ sessions[d].proposed.operation = InProgress(s.id)
            => ~(s.proposed.observations \subseteq sessions[d].proposed.observations)
  /\ \A id \in Operations : s.proposed.operation = InProgress(id) =>
       \/ db.operation = InProgress(id) /\ s.proposed.observations = db.observations
       \/ \A d \in Refreshers :
            d # c /\ sessions[d].phase # "idle" => sessions[d].id # id
  /\ /\ c \in Refreshers
     /\ s.phase \in {"fetch", "complete", "failing", "fail"}
     /\ s.id \notin ended
     => db.operation = InProgress(s.id)

(* A step that changes one session only, and that to an admissible one.    *)
LEMMA EnterInv ==
  ASSUME IInv, TypeOK', NEW c \in Clients, NEW s \in Sessions,
         sessions' = [sessions EXCEPT ![c] = s],
         used \subseteq used', Admissible(c, s, used'),
         UNCHANGED <<db, ended, persistedBy>>
  PROVE  IInv'
<1>1. /\ sessions'[c] = s
      /\ \A d \in Clients : d # c => sessions'[d] = sessions[d]
  BY DEF IInv, TypeOK
<1>2. TypeOK /\ DatabaseInv /\ SessionInv /\ OwnIds /\ ActiveRefreshIsLatest
      /\ MarksHaveQuotes
  BY DEF IInv
<1>3. DatabaseInv'
  BY <1>1, <1>2 DEF DatabaseInv, Fresh, Admissible
<1>4. SessionOK(c)'
  <2>1. Shape(c, s, used') /\ Behind(s)' /\ Stale(s)'
    BY DEF Admissible, Behind, Stale
  <2>2. s.phase # "idle" /\ c \in Refreshers => Unwritten(c)'
    BY <1>1 DEF Admissible, Unwritten
  <2>3. BringsQuote(c)'
    <3>1. s.phase = "complete" => s.proposed.operation # InProgress(s.id)
      BY DEF Admissible, Shape, Terminated, InProgress
    <3> QED
      BY <1>1, <3>1 DEF Admissible, BringsQuote
  <2> QED
    BY <1>1, <2>1, <2>2, <2>3 DEF SessionOK, Admissible, Shape
<1>5. ASSUME NEW d \in Clients, d # c PROVE SessionOK(d)'
  <2>1. SessionOK(d) /\ sessions'[d] = sessions[d]
    BY <1>1, <1>2, <1>5 DEF SessionInv
  <2>2. Shape(d, sessions[d], used')
    BY <2>1 DEF SessionOK, Shape
  <2>3. Behind(sessions[d])' /\ Stale(sessions[d])'
    BY <2>1 DEF SessionOK, Behind, Stale
  <2>4. sessions[d].phase # "idle" /\ d \in Refreshers => Unwritten(d)'
    <3> SUFFICES ASSUME sessions[d].phase # "idle", d \in Refreshers
                 PROVE  Unwritten(d)'
      OBVIOUS
    <3>1. \A status \in TerminalStatuses :
            s.proposed.operation # Terminated(sessions[d].id, status, d)
      BY <1>5, <2>1, ClientsAssumption
      DEF Admissible, SessionOK, Unwritten, Terminated
    <3> QED
      BY <1>1, <2>1, <3>1 DEF SessionOK, Unwritten
  <2>5. BringsQuote(d)'
    <3> DEFINE t == sessions[d]
    <3> SUFFICES ASSUME t.phase = "complete", t.id \in t.proposed.marks \ db.marks,
                        s.proposed.operation = InProgress(t.id)
                 PROVE  ~(t.proposed.observations \subseteq s.proposed.observations)
      BY <1>1, <2>1 DEF SessionOK, BringsQuote
    <3>1. d \in Refreshers /\ t.id \in used /\ t.id \in Operations
      BY <1>2, <2>1 DEF SessionOK, Shape, TypeOK
    <3> QED
      BY <1>5, <2>1, <3>1 DEF Admissible, SessionOK, BringsQuote
  <2> QED
    BY <2>1, <2>2, <2>3, <2>4, <2>5 DEF SessionOK
<1>6. OwnIds'
  BY <1>1, <1>2 DEF OwnIds, Clients, Admissible
<1>7. ActiveRefreshIsLatest'
  BY <1>1, <1>2 DEF ActiveRefreshIsLatest, Clients, Admissible
<1>8. MarksHaveQuotes'
  BY <1>2 DEF MarksHaveQuotes
<1> QED
  BY <1>3, <1>4, <1>5, <1>6, <1>7, <1>8 DEF IInv, SessionInv
-----------------------------------------------------------------------------
(* The heart of the matter: what an accepted save can do, however old the  *)
(* snapshot it was computed from.                                          *)
LEMMA SaveInv ==
  ASSUME IInv, TypeOK', NEW c \in Clients, NEW s \in Sessions, Saves(c),
         sessions[c].phase \in {"begin", "complete", "fail", "recover", "save"},
         sessions' = [sessions EXCEPT ![c] = s],
         \/ s = IdleSession
         \/ /\ s = [phase |-> "fetch", id |-> sessions[c].id, proposed |-> EmptyRun]
            /\ sessions[c].phase = "begin"
  PROVE  IInv'
<1> DEFINE old == sessions[c]
           run == old.proposed
<1>1. TypeOK /\ DatabaseInv /\ SessionInv /\ OwnIds /\ ActiveRefreshIsLatest
      /\ MarksHaveQuotes
  BY DEF IInv
<1>2. /\ sessions'[c] = s
      /\ \A d \in Clients : d # c => sessions'[d] = sessions[d]
  BY <1>1 DEF TypeOK
<1>3. /\ s.proposed = EmptyRun
      /\ s.phase = "idle" \/ (s.phase = "fetch" /\ old.phase = "begin" /\ s.id = old.id)
      /\ s.proposed.operation = NoOperation
      /\ s.proposed.observations = {}
      /\ s.proposed.marks = {}
      /\ \A id \in Operations : NoOperation.id # id
  <2>1. /\ s.proposed = EmptyRun
        /\ s.phase = "idle" \/ (s.phase = "fetch" /\ old.phase = "begin" /\ s.id = old.id)
    BY DEF IdleSession
  <2> QED
    BY <2>1, DataAssumption DEF EmptyRun, NoOperation
<1>4. SessionOK(c) /\ run \in Aggregates /\ db \in Aggregates
  BY <1>1 DEF SessionInv, TypeOK, Sessions
<1>5. /\ Accepts(db, run)
      /\ db' = run
      /\ used' = used
      /\ ended' = IF IsTerminal(run.operation)
                  THEN ended \cup {run.operation.id} ELSE ended
      /\ persistedBy' = IF old.phase = "complete"
                        THEN [persistedBy EXCEPT ![run.operation.id] =
                                @ \cup (run.observations \ db.observations)]
                        ELSE persistedBy
  BY DEF Saves
<1>6. /\ db.observations \subseteq run.observations
      /\ db.marks \subseteq run.marks
      /\ old.phase # "complete" => run.observations = db.observations
  BY <1>4, <1>5 DEF Accepts, RequireImmutableRecords, SessionOK, Behind
<1>7. run.operation = NoOperation => db.operation = NoOperation
  BY <1>5 DEF Accepts, RequirePriceRefreshOperation
<1>8. /\ run.operation \in OperationRecords
      /\ db.operation \in OperationRecords
  BY <1>4 DEF Aggregates
<1>9. ASSUME old.phase = "complete"
      PROVE  /\ c \in Refreshers
             /\ old.id \in Operations
             /\ run.operation = Terminated(old.id, "COMPLETED", c)
             /\ db.operation = InProgress(old.id)
  <2>1. /\ c \in Refreshers
        /\ old.id \in Operations
        /\ run.operation = Terminated(old.id, "COMPLETED", c)
    BY <1>1, <1>4, <1>9 DEF SessionOK, Shape, TypeOK
  <2>2. db.operation # NoOperation
    BY <1>3, <1>4, <1>9, <2>1 DEF SessionOK, Terminated
  <2>3. db.operation # run.operation
    BY <1>4, <1>9, <2>1 DEF SessionOK, Unwritten, TerminalStatuses
  <2>4. db.operation.id = old.id /\ db.operation.status = "IN_PROGRESS"
    BY <1>5, <2>1, <2>2, <2>3
    DEF Accepts, RequirePriceRefreshOperation, Terminated
  <2> QED
    BY <1>8, <2>1, <2>4
    DEF OperationRecords, NoOperation, InProgress, Terminated, TerminalStatuses
<1>10. \A id \in Operations : /\ persistedBy[id] \subseteq persistedBy'[id]
                              /\ persistedBy'[id] \subseteq run.observations
  BY <1>1, <1>5, <1>6, <1>9 DEF DatabaseInv, TypeOK, Terminated
<1>11. DatabaseInv'
  <2>1. UniqueKeys(run.observations)
    BY <1>5 DEF Accepts
  <2>2. ASSUME NEW id \in Operations, persistedBy'[id] # {},
               run.operation.id = id
        PROVE  run.operation.status = "COMPLETED"
    <3>1. CASE old.phase = "complete"
      BY <1>9, <3>1 DEF Terminated
    <3>2. CASE old.phase # "complete"
      <4>1. run.observations = db.observations /\ persistedBy'[id] = persistedBy[id]
        BY <1>5, <1>6, <3>2
      <4>2. run.operation # InProgress(id)
        BY <1>1, <1>4, <2>2, <4>1 DEF SessionOK, Stale, DatabaseInv
      <4>3. ASSUME run.operation.status = "FAILED" PROVE FALSE
        <5>1. db.operation.id = id
          BY <1>3, <1>4, <1>5, <2>2, <3>2, <4>3
          DEF Accepts, RequirePriceRefreshOperation, SessionOK, Shape, InProgress,
              NoOperation
        <5>2. db.operation.status = "COMPLETED"
          BY <1>1, <2>2, <4>1, <5>1 DEF DatabaseInv
        <5> QED
          BY <1>5, <2>2, <4>3, <5>1, <5>2
          DEF Accepts, RequirePriceRefreshOperation, NoOperation
      <4> QED
        BY <1>3, <1>8, <2>2, <4>2, <4>3
        DEF OperationRecords, InProgress, Terminated, TerminalStatuses
    <3> QED
      BY <3>1, <3>2
  <2>3. ASSUME NEW id \in Operations \ used
        PROVE  Fresh(id)'
    <3>1. Fresh(id)
      BY <1>1 DEF DatabaseInv
    <3>2. persistedBy'[id] = {}
      BY <1>1, <1>4, <1>5, <1>9, <3>1
      DEF Fresh, SessionOK, Shape, TypeOK, Terminated
    <3> QED
      BY <1>2, <1>3, <1>5, <3>1, <3>2 DEF Fresh
  <2> QED
    BY <1>5, <1>10, <2>1, <2>2, <2>3 DEF DatabaseInv
<1>12. SessionOK(c)'
  <2>1. Shape(c, s, used')
    BY <1>3, <1>4, <1>5 DEF SessionOK, Shape
  <2>2. Behind(s)' /\ Stale(s)'
    BY <1>3 DEF Behind, Stale, InProgress
  <2>3. s.phase # "idle" => Unwritten(c)'
    <3> SUFFICES ASSUME s.phase # "idle" PROVE Unwritten(c)'
      OBVIOUS
    <3>1. old.phase = "begin" /\ c \in Refreshers /\ s.id = old.id
          /\ run.operation = InProgress(s.id)
      BY <1>3, <1>4 DEF SessionOK, Shape
    <3>2. \A status \in TerminalStatuses : run.operation # Terminated(s.id, status, c)
      BY <3>1 DEF InProgress, Terminated, TerminalStatuses
    <3> QED
      BY <1>2, <1>4, <1>5, <3>1, <3>2 DEF SessionOK, Unwritten
  <2>4. BringsQuote(c)'
    BY <1>2, <1>3 DEF BringsQuote
  <2> QED
    BY <1>2, <1>3, <2>1, <2>2, <2>3, <2>4 DEF SessionOK
<1>13. ASSUME NEW d \in Clients, d # c PROVE SessionOK(d)'
  <2> DEFINE t == sessions[d]
  <2>1. SessionOK(d) /\ sessions'[d] = t
    BY <1>1, <1>2, <1>13 DEF SessionInv
  <2>2. Shape(d, t, used') /\ Behind(t)'
    BY <1>5, <1>6, <2>1 DEF SessionOK, Shape, Behind
  <2>3. Stale(t)'
    <3> SUFFICES ASSUME NEW id \in Operations, persistedBy'[id] # {},
                        t.proposed.operation = InProgress(id),
                        persistedBy'[id] \subseteq t.proposed.observations
                 PROVE  FALSE
      BY <2>1 DEF Stale
    <3>1. t.proposed.observations \subseteq db.observations
      BY <2>1 DEF SessionOK, Behind, Shape, InProgress, Terminated
    <3>2. persistedBy[id] = {}
      BY <1>10, <2>1 DEF SessionOK, Stale
    <3>3. persistedBy'[id] \cap db.observations = {}
      BY <1>1, <1>5, <1>9, <3>2 DEF TypeOK, Terminated
    <3> QED
      BY <3>1, <3>3
  <2>4. t.phase = "begin" => persistedBy'[t.id] = {}
    <3>1. t.phase = "begin" => d \in Refreshers /\ t.id \in Operations
      BY <1>1, <2>1 DEF SessionOK, Shape, TypeOK
    <3>2. t.phase = "begin" /\ old.phase = "complete" => old.id # t.id
      BY <1>1, <1>9, <1>13, <3>1 DEF OwnIds
    <3> QED
      BY <1>1, <1>5, <1>9, <2>1, <3>1, <3>2 DEF SessionOK, TypeOK, Terminated
  <2>5. t.phase # "idle" /\ d \in Refreshers => Unwritten(d)'
    <3>1. \A status \in TerminalStatuses :
            NoOperation # Terminated(t.id, status, d)
      BY DEF NoOperation, Terminated, TerminalStatuses
    <3> QED
      BY <1>2, <1>3, <1>5, <1>13, <2>1, <3>1 DEF SessionOK, Unwritten
  <2>6. BringsQuote(d)'
    <3> SUFFICES ASSUME t.phase = "complete", t.id \in t.proposed.marks \ run.marks
                 PROVE  BringsQuote(d)'
      BY <1>5, <2>1 DEF BringsQuote
    <3>1. t.id \in t.proposed.marks \ db.marks
      BY <1>6
    <3>2. NoOperation # InProgress(t.id)
      BY DEF NoOperation, InProgress
    <3> QED
      BY <1>2, <1>3, <1>5, <2>1, <3>1, <3>2 DEF SessionOK, BringsQuote
  <2> QED
    BY <1>5, <1>7, <2>1, <2>2, <2>3, <2>4, <2>5, <2>6 DEF SessionOK
<1>14. OwnIds'
  BY <1>1, <1>2, <1>3 DEF OwnIds, Clients
<1>15. ActiveRefreshIsLatest'
  <2> SUFFICES ASSUME NEW d \in Refreshers,
                      sessions'[d].phase \in {"fetch", "complete", "failing", "fail"},
                      sessions'[d].id \notin ended'
               PROVE  run.operation = InProgress(sessions'[d].id)
    BY <1>5 DEF ActiveRefreshIsLatest
  <2>1. CASE d = c
    BY <1>2, <1>3, <1>4, <2>1 DEF SessionOK, Shape
  <2>2. CASE d # c
    <3>1. sessions'[d] = sessions[d]
      BY <1>2, <2>2 DEF Clients
    <3>2. db.operation = InProgress(sessions[d].id)
      BY <1>1, <1>5, <3>1 DEF ActiveRefreshIsLatest
    <3>3. run.operation.id = sessions[d].id /\ run.operation # NoOperation
      BY <1>5, <3>2
      DEF Accepts, RequirePriceRefreshOperation, NoOperation, InProgress
    <3>4. ~IsTerminal(run.operation)
      BY <1>5, <3>1, <3>3
    <3> QED
      BY <1>8, <3>1, <3>3, <3>4
      DEF OperationRecords, IsTerminal, InProgress, Terminated, TerminalStatuses
  <2> QED
    BY <2>1, <2>2
<1>16. MarksHaveQuotes'
  <2> SUFFICES ASSUME NEW id \in run.marks PROVE persistedBy'[id] # {}
    BY <1>5 DEF MarksHaveQuotes
  <2>1. id \in Operations
    BY <1>4 DEF Aggregates
  <2>2. CASE id \in db.marks
    BY <1>1, <1>10, <2>1, <2>2 DEF MarksHaveQuotes
  <2>3. CASE id \notin db.marks
    <3>1. old.phase = "complete" /\ id = old.id
      BY <1>4, <2>3 DEF SessionOK, Behind
    <3>2. ~(run.observations \subseteq db.observations)
      BY <1>4, <1>9, <2>3, <3>1 DEF SessionOK, BringsQuote
    <3> QED
      BY <1>1, <1>5, <1>9, <3>1, <3>2 DEF TypeOK, Terminated
  <2> QED
    BY <2>2, <2>3
<1> QED
  BY <1>11, <1>12, <1>13, <1>14, <1>15, <1>16 DEF IInv, SessionInv
-----------------------------------------------------------------------------
(* The inductive invariant.                                                *)
LEMMA InvInit == Init => IInv
<1> SUFFICES ASSUME Init PROVE IInv
  OBVIOUS
<1>1. TypeOK
  BY TypeInit
<1>2. \A id \in Operations \cup Clients : NoOperation.id # id /\ NoOperation.by # id
  BY DataAssumption, ClientsAssumption DEF NoOperation
<1>3. DatabaseInv
  BY <1>2 DEF Init, DatabaseInv, Fresh, EmptyRun, UniqueKeys, IdleSession
<1>4. SessionInv
  BY <1>2 DEF Init, SessionInv, SessionOK, Shape, Behind, Stale, BringsQuote,
              EmptyRun, IdleSession, InProgress
<1>5. OwnIds /\ ActiveRefreshIsLatest /\ MarksHaveQuotes
  BY DEF Init, OwnIds, ActiveRefreshIsLatest, MarksHaveQuotes, IdleSession,
         EmptyRun, Clients
<1> QED
  BY <1>1, <1>3, <1>4, <1>5 DEF IInv

LEMMA InvNext == IInv /\ [Next]_vars => IInv'
<1> SUFFICES ASSUME IInv, [Next]_vars PROVE IInv'
  OBVIOUS
<1>1. /\ TypeOK /\ DatabaseInv /\ SessionInv /\ OwnIds
      /\ ActiveRefreshIsLatest /\ MarksHaveQuotes
      /\ TypeOK'
  BY TypeNext DEF IInv
<1>2. \A c \in Clients : /\ sessions[c] \in Sessions
                         /\ SessionOK(c)
  BY <1>1 DEF TypeOK, SessionInv
<1>3. Refreshers \subseteq Clients /\ Operators \subseteq Clients
      /\ Writers \subseteq Clients
  BY DEF Clients
<1>4. EmptyRun.operation = NoOperation /\ EmptyRun.observations = {}
      /\ EmptyRun.marks = {}
  BY DEF EmptyRun
<1>5. \A id \in Operations \cup Clients : NoOperation.id # id /\ NoOperation.by # id
  BY DataAssumption, ClientsAssumption DEF NoOperation
<1>6. \A id \in Operations : /\ NoOperation # InProgress(id)
                             /\ \A status \in TerminalStatuses, c \in Clients :
                                  /\ NoOperation # Terminated(id, status, c)
                                  /\ InProgress(id) # Terminated(id, status, c)
  BY DEF NoOperation, InProgress, Terminated, TerminalStatuses
(* giving up *)
<1>7. ASSUME NEW c \in Clients, Leave(c), UNCHANGED <<db, used, ended, persistedBy>>
      PROVE  IInv'
  <2>1. Admissible(c, IdleSession, used')
    BY <1>4, <1>5, <1>6
    DEF Admissible, Shape, Behind, Stale, IdleSession, NoOperation
  <2> QED
    BY <1>1, <1>7, <2>1, EmptyRunType, EnterInv DEF Leave
<1>8. ASSUME NEW c \in Refreshers, sessions[c].phase \in {"fetch", "complete"},
             Enter(c, "failing", sessions[c].id, EmptyRun),
             UNCHANGED <<db, used, ended, persistedBy>>
      PROVE  IInv'
  <2> DEFINE s == [phase |-> "failing", id |-> sessions[c].id, proposed |-> EmptyRun]
  <2>1. s.phase = "failing" /\ s.id = sessions[c].id /\ s.proposed = EmptyRun
    OBVIOUS
  <2>2. sessions' = [sessions EXCEPT ![c] = s] /\ s \in Sessions /\ c \in Clients
    BY <1>1, <1>3, <1>8 DEF Enter, TypeOK
  <2>3. Shape(c, s, used) /\ Behind(s) /\ Stale(s)
    BY <1>2, <1>4, <1>6, <1>8, <2>1, <2>2 DEF SessionOK, Shape, Behind, Stale
  <2>4. s.proposed.operation = NoOperation /\ NoOperation.by = NoId
    BY <1>4, <2>1 DEF NoOperation
  <2>5. /\ Unwritten(c)
        /\ s.id \notin ended => db.operation = InProgress(s.id)
    BY <1>1, <1>2, <1>8, <2>1, <2>2 DEF SessionOK, ActiveRefreshIsLatest
  <2>6. \A d \in Refreshers :
          d # c /\ sessions[d].phase # "idle" => sessions[d].id # s.id
    BY <1>1, <1>8, <2>1 DEF OwnIds
  <2>7. Admissible(c, s, used')
    BY <1>5, <1>6, <1>8, <2>1, <2>3, <2>4, <2>5, <2>6 DEF Admissible, Unwritten
  <2> QED
    BY <1>1, <1>8, <2>2, <2>7, EnterInv
(* one step per action *)
<1>9. ASSUME NEW c \in Refreshers, BeginRefresh(c) PROVE IInv'
  <2>1. PICK id \in Operations \ used :
             /\ used' = used \cup {id}
             /\ Enter(c, "begin", id, [db EXCEPT !.operation = InProgress(id)])
    BY <1>9 DEF BeginRefresh
  <2> DEFINE s == [phase |-> "begin", id |-> id,
                   proposed |-> [db EXCEPT !.operation = InProgress(id)]]
  <2>2. /\ s.phase = "begin" /\ s.id = id
        /\ s.proposed.operation = InProgress(id)
        /\ s.proposed.observations = db.observations
        /\ s.proposed.marks = db.marks
    BY <1>1 DEF TypeOK, Aggregates
  <2>3. sessions' = [sessions EXCEPT ![c] = s] /\ s \in Sessions /\ c \in Clients
    BY <1>1, <1>3, <2>1 DEF Enter, TypeOK
  <2>4. Fresh(id)
    BY <1>1, <2>1 DEF DatabaseInv
  <2>5. Shape(c, s, used') /\ Behind(s) /\ Stale(s)
    BY <2>1, <2>2, <2>4 DEF Shape, Behind, Stale, Fresh, InProgress
  <2>6. \A d \in Refreshers :
          d # c /\ sessions[d].phase # "idle" => sessions[d].id # id
    BY <1>2, <1>3, <2>1, ClientsAssumption DEF SessionOK, Shape, Sessions, Phases
  <2>7. \A status \in TerminalStatuses :
          /\ db.operation # Terminated(id, status, c)
          /\ \A d \in Clients :
               sessions[d].proposed.operation # Terminated(id, status, c)
    BY <2>4 DEF Fresh, Terminated
  <2>8. Admissible(c, s, used')
    BY <2>1, <2>2, <2>4, <2>5, <2>6, <2>7 DEF Admissible, Fresh, InProgress
  <2> QED
    BY <1>1, <1>9, <2>1, <2>3, <2>8, EnterInv DEF BeginRefresh, Reads
<1>10. ASSUME NEW c \in Refreshers, SaveBegin(c) PROVE IInv'
  <2>1. CASE Saves(c) /\ Enter(c, "fetch", sessions[c].id, EmptyRun)
    <3> DEFINE s == [phase |-> "fetch", id |-> sessions[c].id, proposed |-> EmptyRun]
    <3>1. sessions' = [sessions EXCEPT ![c] = s] /\ s \in Sessions /\ c \in Clients
      BY <1>1, <1>3, <2>1 DEF Enter, TypeOK
    <3> QED
      BY <1>1, <1>10, <2>1, <3>1, SaveInv DEF SaveBegin
  <2>2. CASE SaveRaises /\ Leave(c)
    BY <1>3, <1>7, <2>2 DEF SaveRaises
  <2> QED
    BY <1>10, <2>1, <2>2 DEF SaveBegin
<1>11. ASSUME NEW c \in Refreshers, FetchAll(c) PROVE IInv'
  <2> DEFINE id == sessions[c].id
  <2>1. PICK batch \in Batches, marked \in SUBSET {id} :
          /\ marked \in Marks(id, Additions(batch, db))
          /\ Enter(c, "complete", id,
               [db EXCEPT !.operation = Terminated(id, "COMPLETED", c),
                          !.observations = @ \cup Additions(batch, db),
                          !.marks = @ \cup marked])
    BY <1>11 DEF FetchAll, Marks
  <2> DEFINE run == [db EXCEPT !.operation = Terminated(id, "COMPLETED", c),
                               !.observations = @ \cup Additions(batch, db),
                               !.marks = @ \cup marked]
             s == [phase |-> "complete", id |-> id, proposed |-> run]
  <2>2. /\ s.phase = "complete" /\ s.id = id
        /\ s.proposed.operation = Terminated(id, "COMPLETED", c)
        /\ s.proposed.observations = db.observations \cup Additions(batch, db)
        /\ s.proposed.marks = db.marks \cup marked
    BY <1>1 DEF TypeOK, Aggregates
  <2>3. sessions' = [sessions EXCEPT ![c] = s] /\ s \in Sessions /\ c \in Clients
    BY <1>1, <1>3, <2>1 DEF Enter, TypeOK
  <2>4. /\ sessions[c].phase = "fetch" /\ SessionOK(c) /\ Shape(c, sessions[c], used)
        /\ db.operation.id = id /\ id \in used /\ id \in Operations
        /\ UNCHANGED <<db, used, ended, persistedBy>>
    BY <1>1, <1>2, <1>3, <1>11 DEF FetchAll, IsCurrent, SessionOK, Shape, TypeOK, Reads
  <2>5. /\ marked \subseteq {id}
        /\ marked # {} => Additions(batch, db) # {}
        /\ Additions(batch, db) \cap db.observations = {}
    BY <2>1 DEF Marks, Additions
  <2>6. Shape(c, s, used') /\ Behind(s) /\ Stale(s)
    BY <1>6, <2>2, <2>3, <2>4, <2>5 DEF Shape, Behind, Stale, InProgress, Terminated
  <2>7. \A d \in Refreshers :
          d # c /\ sessions[d].phase # "idle" => sessions[d].id # id
    BY <1>1, <2>4 DEF OwnIds
  <2>8. /\ Unwritten(c)
        /\ id \notin ended => db.operation = InProgress(id)
    BY <1>1, <2>4 DEF SessionOK, ActiveRefreshIsLatest
  <2>9. ASSUME id \in s.proposed.marks \ db.marks
        PROVE  /\ ~(s.proposed.observations \subseteq db.observations)
               /\ \A d \in Clients :
                    sessions[d].proposed.operation = InProgress(id)
                      => sessions[d].proposed.observations \subseteq db.observations
    <3>1. Additions(batch, db) # {}
      BY <2>2, <2>5, <2>9
    <3>2. ASSUME NEW d \in Clients, sessions[d].proposed.operation = InProgress(id)
          PROVE  sessions[d].phase # "complete"
      <4>1. Shape(d, sessions[d], used)
        BY <1>2 DEF SessionOK
      <4>2. sessions[d].proposed.operation.status = "IN_PROGRESS"
        BY <3>2 DEF InProgress
      <4> QED
        BY <4>1, <4>2 DEF Shape, Terminated
    <3> QED
      BY <1>2, <2>2, <2>5, <3>1, <3>2 DEF SessionOK, Behind
  <2>10. /\ s.proposed.operation.by = c
         /\ \A other \in Operations \ used' : s.proposed.operation.id # other
         /\ \A other \in Operations : s.proposed.operation # InProgress(other)
         /\ db.operation # NoOperation
    BY <1>5, <2>2, <2>4 DEF Terminated, InProgress
  <2>11. Admissible(c, s, used')
    BY <2>2, <2>4, <2>6, <2>7, <2>8, <2>9, <2>10 DEF Admissible, Unwritten
  <2> QED
    BY <1>1, <2>3, <2>4, <2>11, EnterInv
<1>12. ASSUME NEW c \in Refreshers, FetchRaises(c) PROVE IInv'
  BY <1>8, <1>12 DEF FetchRaises, Reads
<1>13. ASSUME NEW c \in Refreshers, SaveComplete(c) PROVE IInv'
  <2>1. CASE Saves(c) /\ Leave(c)
    BY <1>1, <1>3, <1>13, <2>1, SaveInv, EmptyRunType DEF SaveComplete, Leave
  <2>2. CASE SaveRaises /\ Enter(c, "failing", sessions[c].id, EmptyRun)
    BY <1>8, <1>13, <2>2 DEF SaveComplete, SaveRaises
  <2> QED
    BY <1>13, <2>1, <2>2 DEF SaveComplete
<1>14. ASSUME NEW c \in Refreshers, FailRefresh(c) PROVE IInv'
  <2> DEFINE id == sessions[c].id
             run == [db EXCEPT !.operation = Terminated(id, "FAILED", c)]
             s == [phase |-> "fail", id |-> id, proposed |-> run]
  <2>1. CASE db.operation.id = id
    <3>1. sessions' = [sessions EXCEPT ![c] = s] /\ s \in Sessions /\ c \in Clients
      BY <1>1, <1>3, <1>14, <2>1 DEF FailRefresh, IsCurrent, Enter, TypeOK
    <3>2. /\ s.phase = "fail" /\ s.id = id
          /\ s.proposed.operation = Terminated(id, "FAILED", c)
          /\ s.proposed.observations = db.observations
          /\ s.proposed.marks = db.marks
      BY <1>1 DEF TypeOK, Aggregates
    <3>3. /\ sessions[c].phase = "failing" /\ SessionOK(c)
          /\ id \in used /\ id \in Operations
          /\ UNCHANGED <<db, used, ended, persistedBy>>
      BY <1>1, <1>2, <1>3, <1>14 DEF FailRefresh, SessionOK, Shape, TypeOK, Reads
    <3>4. Shape(c, s, used') /\ Behind(s) /\ Stale(s)
      BY <1>6, <3>1, <3>2, <3>3 DEF Shape, Behind, Stale, InProgress, Terminated
    <3>5. \A d \in Refreshers :
            d # c /\ sessions[d].phase # "idle" => sessions[d].id # id
      BY <1>1, <3>3 DEF OwnIds
    <3>6. /\ Unwritten(c)
          /\ id \notin ended => db.operation = InProgress(id)
      BY <1>1, <3>3 DEF SessionOK, ActiveRefreshIsLatest
    <3>7. /\ s.proposed.operation.by = c
          /\ \A other \in Operations \ used' : s.proposed.operation.id # other
          /\ \A other \in Operations : s.proposed.operation # InProgress(other)
          /\ db.operation # NoOperation
      BY <1>5, <2>1, <3>2, <3>3 DEF Terminated, InProgress
    <3>8. Admissible(c, s, used')
      BY <3>2, <3>3, <3>4, <3>5, <3>6, <3>7 DEF Admissible, Unwritten
    <3> QED
      BY <1>1, <3>1, <3>3, <3>8, EnterInv
  <2>2. CASE db.operation.id # id
    BY <1>3, <1>7, <1>14, <2>2 DEF FailRefresh, IsCurrent, Reads
  <2> QED
    BY <2>1, <2>2
<1>22. ASSUME NEW c \in Clients, Leave(c), Saves(c) \/ SaveRaises,
              sessions[c].phase \in {"fail", "recover", "save"}
       PROVE  IInv'
  <2>1. CASE Saves(c)
    BY <1>1, <1>22, <2>1, SaveInv, EmptyRunType DEF Leave
  <2>2. CASE SaveRaises
    BY <1>7, <1>22, <2>2 DEF SaveRaises
  <2> QED
    BY <1>22, <2>1, <2>2
<1>15. ASSUME NEW c \in Refreshers, SaveFail(c) PROVE IInv'
  BY <1>3, <1>15, <1>22 DEF SaveFail
<1>16. ASSUME NEW c \in Operators, RecoverRefresh(c) PROVE IInv'
  <2> DEFINE id == db.operation.id
             run == [db EXCEPT !.operation = Terminated(id, "FAILED", c)]
             s == [phase |-> "recover", id |-> id, proposed |-> run]
  <2>1. sessions' = [sessions EXCEPT ![c] = s] /\ s \in Sessions /\ c \in Clients
    BY <1>1, <1>3, <1>16 DEF RecoverRefresh, Enter, TypeOK
  <2>2. /\ s.phase = "recover" /\ s.id = id
        /\ s.proposed.operation = Terminated(id, "FAILED", c)
        /\ s.proposed.observations = db.observations
        /\ s.proposed.marks = db.marks
    BY <1>1 DEF TypeOK, Aggregates
  <2>3. /\ id \in Operations /\ db.operation # NoOperation
        /\ UNCHANGED <<db, used, ended, persistedBy>>
    BY <1>1, <1>16 DEF RecoverRefresh, Reads, TypeOK, Aggregates, OperationRecords,
      NoOperation, InProgress, Terminated, TerminalStatuses
  <2>4. Shape(c, s, used') /\ Behind(s) /\ Stale(s)
    BY <1>6, <2>1, <2>2, <2>3 DEF Shape, Behind, Stale, InProgress, Terminated
  <2>5. /\ s.proposed.operation.by = c
        /\ \A other \in Operations \ used' : s.proposed.operation.id # other
        /\ \A other \in Operations : s.proposed.operation # InProgress(other)
    BY <1>1, <2>2, <2>3 DEF Terminated, InProgress, DatabaseInv, Fresh
  <2>6. c \notin Refreshers
    BY ClientsAssumption
  <2>7. Admissible(c, s, used')
    BY <2>2, <2>3, <2>4, <2>5, <2>6 DEF Admissible
  <2> QED
    BY <1>1, <2>1, <2>3, <2>7, EnterInv
<1>17. ASSUME NEW c \in Operators, SaveRecover(c) PROVE IInv'
  BY <1>3, <1>17, <1>22 DEF SaveRecover, Recovers
<1>18. ASSUME NEW c \in Writers, ReadRun(c) PROVE IInv'
  <2>1. PICK a \in Artifacts :
             Enter(c, "save", NoId, [db EXCEPT !.artifacts = @ \cup {a}])
    BY <1>18 DEF ReadRun
  <2> DEFINE s == [phase |-> "save", id |-> NoId,
                   proposed |-> [db EXCEPT !.artifacts = @ \cup {a}]]
  <2>2. sessions' = [sessions EXCEPT ![c] = s] /\ s \in Sessions /\ c \in Clients
    BY <1>1, <1>3, <2>1 DEF Enter, TypeOK
  <2>3. /\ s.phase = "save"
        /\ s.proposed.operation = db.operation
        /\ s.proposed.observations = db.observations
        /\ s.proposed.marks = db.marks
    BY <1>1 DEF TypeOK, Aggregates
  <2>4. UNCHANGED <<db, used, ended, persistedBy>> /\ c \notin Refreshers
    BY <1>18, ClientsAssumption DEF ReadRun, Reads
  <2>5. Shape(c, s, used') /\ Behind(s)
    BY <2>3 DEF Shape, Behind
  <2>6. Stale(s)
    BY <1>1, <2>3 DEF Stale, DatabaseInv, InProgress
  <2>7. \A other \in Operations \ used' : s.proposed.operation.id # other
    BY <1>1, <2>3, <2>4 DEF DatabaseInv, Fresh
  <2>8. Admissible(c, s, used')
    BY <2>3, <2>4, <2>5, <2>6, <2>7 DEF Admissible
  <2> QED
    BY <1>1, <2>2, <2>4, <2>8, EnterInv
<1>19. ASSUME NEW c \in Writers, SaveTransition(c) PROVE IInv'
  BY <1>3, <1>19, <1>22 DEF SaveTransition
<1>20. ASSUME Crash PROVE IInv'
  <2>1. /\ UNCHANGED <<db, used, ended, persistedBy>>
        /\ \A c \in Clients : sessions'[c] = IdleSession
    BY <1>20 DEF Crash
  <2>2. DatabaseInv'
    BY <1>1, <1>4, <1>5, <2>1 DEF DatabaseInv, Fresh, IdleSession
  <2>3. SessionInv'
    BY <1>4, <1>6, <2>1
    DEF SessionInv, SessionOK, Shape, Behind, Stale, BringsQuote, IdleSession
  <2>4. OwnIds' /\ ActiveRefreshIsLatest' /\ MarksHaveQuotes'
    BY <1>1, <1>3, <2>1
    DEF OwnIds, ActiveRefreshIsLatest, MarksHaveQuotes, IdleSession
  <2> QED
    BY <1>1, <2>2, <2>3, <2>4 DEF IInv
<1>21. ASSUME UNCHANGED vars PROVE IInv'
  <2>1. DatabaseInv' /\ SessionInv'
    BY <1>1, <1>21
    DEF vars, DatabaseInv, Fresh, SessionInv, SessionOK, Shape, Behind, Stale,
        Unwritten, BringsQuote
  <2>2. OwnIds' /\ ActiveRefreshIsLatest' /\ MarksHaveQuotes'
    BY <1>1, <1>21 DEF vars, OwnIds, ActiveRefreshIsLatest, MarksHaveQuotes
  <2> QED
    BY <1>1, <2>1, <2>2 DEF IInv
<1> QED
  BY <1>9, <1>10, <1>11, <1>12, <1>13, <1>14, <1>15, <1>16, <1>17, <1>18,
     <1>19, <1>20, <1>21 DEF Next, RefreshStep
-----------------------------------------------------------------------------
LEMMA Invariance == Spec => []IInv
BY InvInit, InvNext, PTL DEF Spec

(* Every reachable state has the declared types, whatever the constants.   *)
THEOREM TypeCorrect == Spec => []TypeOK
BY Invariance, PTL DEF IInv

(* At most one refresh is live: one that has begun and was not terminated  *)
(* is the operation the database shows in progress, for any number of      *)
(* concurrent refreshes, recoveries, other commands and crashes.           *)
THEOREM OneLiveRefresh == Spec => []ActiveRefreshIsLatest
BY Invariance, PTL DEF IInv

(* A refresh is all or nothing: an operation shown as in progress or       *)
(* failed has added no observation.                                        *)
THEOREM AllOrNothing == Spec => []UnfinishedPersistedNothing
<1>1. IInv => UnfinishedPersistedNothing
  <2> SUFFICES ASSUME IInv, db.operation.status \in {"IN_PROGRESS", "FAILED"}
               PROVE  persistedBy[db.operation.id] = {}
    BY DEF UnfinishedPersistedNothing
  <2>1. db.operation.id \in Operations
    BY DEF IInv, TypeOK, Aggregates, OperationRecords, NoOperation, InProgress,
           Terminated, TerminalStatuses
  <2> QED
    BY <2>1 DEF IInv, DatabaseInv
<1> QED
  BY <1>1, Invariance, PTL

(* The histories are marked only for a refresh that added a quote.         *)
THEOREM MarksAreBacked == Spec => []MarksHaveQuotes
BY Invariance, PTL DEF IInv

(* The run implements the append-only ledger: no interleaving of stale     *)
(* saves loses an artifact or gives a quote a second value.                *)
THEOREM LedgerIsImplemented == Spec => NothingSavedIsLost
<1> DEFINE facts == db.observations \cup db.artifacts
<1>1. Init => Ledger!Init
  BY DEF Init, Ledger!Init, EmptyRun
<1>2. ASSUME IInv, IInv', [Next]_vars
      PROVE  [Ledger!Record]_facts
  <2>1. CASE \E c \in Clients : Saves(c)
    <3>1. PICK c \in Clients : Saves(c)
      BY <2>1
    <3>2. Accepts(db, db')
      BY <3>1 DEF Saves
    <3>3. facts \subseteq facts'
      BY <3>2 DEF Accepts, RequireImmutableRecords
    <3>4. facts' \subseteq Quotes \cup Artifacts
      BY <1>2 DEF IInv, TypeOK, Aggregates
    <3>5. Ledger!Consistent(facts')
      BY <1>2, DataAssumption
      DEF IInv, TypeOK, Aggregates, DatabaseInv, UniqueKeys, Ledger!Consistent
    <3> QED
      BY <3>3, <3>4, <3>5 DEF Ledger!Record
  <2>2. CASE UNCHANGED db
    BY <2>2
  <2> QED
    BY <1>2, <2>1, <2>2
    DEF Next, RefreshStep, vars, Clients, Reads, SaveRaises, BeginRefresh,
        SaveBegin, FetchAll, FetchRaises, SaveComplete, FailRefresh, SaveFail,
        RecoverRefresh, SaveRecover, Recovers, ReadRun, SaveTransition, Crash
<1> QED
  BY <1>1, <1>2, Invariance, PTL DEF NothingSavedIsLost, Ledger!Spec, Spec
=============================================================================
