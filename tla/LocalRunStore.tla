---------------------------- MODULE LocalRunStore ----------------------------
(***************************************************************************)
(* The rules SQLiteLocalRunStore.save_transition applies to a replacement  *)
(* aggregate under BEGIN IMMEDIATE, against the aggregate that is current  *)
(* at that moment.  Every command of the program is a read of the current  *)
(* aggregate followed, later, by one such save; the modules of the         *)
(* commands build their proposals and use these operators as its guard.    *)
(*                                                                         *)
(* A collection of immutable artifacts is a set of records with a "key"    *)
(* (the identity the store compares) and a "value" (the rest).             *)
(***************************************************************************)
EXTENDS Naturals, Sequences, FiniteSets

CONSTANT NoId   \* the absence of an operation or of an artifact identity

(***************************************************************************)
(* The latest price refresh operation.  "by" names the caller that wrote   *)
(* the terminal record: it stands for completed_at and the failure fields, *)
(* which differ whenever two callers terminate the same operation.         *)
(***************************************************************************)
NoOperation == [id |-> NoId, status |-> "NONE", by |-> NoId]

InProgress(id) == [id |-> id, status |-> "IN_PROGRESS", by |-> NoId]

Terminated(id, status, by) == [id |-> id, status |-> status, by |-> by]

IsTerminal(operation) == operation.status \in {"COMPLETED", "FAILED"}

-----------------------------------------------------------------------------

(* No two artifacts share an identity: the primary keys of the index       *)
(* tables and the uniqueness checks of PersistedRunState.validate.         *)
UniqueKeys(artifacts) ==
  \A a, b \in artifacts : a.key = b.key => a = b

(* No artifact is removed or rewritten.                                    *)
RequireImmutableRecords(current, proposed) ==
  \A a \in current : a \in proposed

RequireHistoryPrefix(current, proposed) ==
  /\ Len(current) <= Len(proposed)
  /\ \A i \in 1..Len(current) : proposed[i] = current[i]

-----------------------------------------------------------------------------
(* Mutant: the active operation may be replaced. *)
AnyOperationMayBegin(current, proposed) ==
  \/ current = NoOperation
  \/ /\ proposed # NoOperation
     /\ IF proposed.id # current.id
        THEN proposed.status = "IN_PROGRESS"
        ELSE current.status # "IN_PROGRESS" => proposed = current

(* Mutant: an operation in progress may not be terminated. *)
OperationIsFinal(current, proposed) ==
  \/ current = NoOperation
  \/ proposed = current
  \/ current.status # "IN_PROGRESS" /\ proposed.status = "IN_PROGRESS"

(***************************************************************************)
(* The rule on latest_price_refresh_operation.  With no current operation  *)
(* any proposal passes; an operation in progress may only be terminated    *)
(* under its own id; a terminal one may only give way to an operation in   *)
(* progress with another id - any other id, an old one included.           *)
(***************************************************************************)
RequirePriceRefreshOperation(current, proposed) ==
  \/ current = NoOperation
  \/ /\ proposed # NoOperation
     /\ IF proposed.id # current.id
        THEN current.status # "IN_PROGRESS" /\ proposed.status = "IN_PROGRESS"
        ELSE current.status # "IN_PROGRESS" => proposed = current
=============================================================================
