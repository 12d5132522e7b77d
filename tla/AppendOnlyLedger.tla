--------------------------- MODULE AppendOnlyLedger ---------------------------
(***************************************************************************)
(* What the local run promises of its immutable artifacts, whoever writes  *)
(* and in whatever order: a ledger that only ever gains facts, and never   *)
(* two facts with one identity.  The modules of the commands are shown to  *)
(* implement it.                                                           *)
(***************************************************************************)
CONSTANT Facts            \* records with a "key" and a "value"

VARIABLE facts            \* the facts on record

Consistent(S) == \A f, g \in S : f.key = g.key => f = g

Init == facts = {}

Record == /\ facts \subseteq facts'
          /\ facts' \subseteq Facts
          /\ Consistent(facts')

Spec == Init /\ [][Record]_facts
=============================================================================
