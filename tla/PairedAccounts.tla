---------------------------- MODULE PairedAccounts ----------------------------
(***************************************************************************)
(* What the ledger promises about money: the managed portfolio and the     *)
(* benchmark start alike, receive every Cash Event together and in the     *)
(* same amount, and each turns its own cash into positions, never more     *)
(* than it has and never back.  PairedLedger is shown to implement it.     *)
(***************************************************************************)
EXTENDS Naturals

CONSTANTS Sides, InitialCash, Deposit

VARIABLES cash,      \* cash of each side
          invested   \* what each side has paid for its positions

Init == /\ cash = [s \in Sides |-> InitialCash]
        /\ invested = [s \in Sides |-> 0]

ReceiveCashEvent ==
  /\ cash' = [s \in Sides |-> cash[s] + Deposit]
  /\ UNCHANGED invested

Invest(s) ==
  \E spent \in 1..cash[s] :
    /\ cash' = [cash EXCEPT ![s] = @ - spent]
    /\ invested' = [invested EXCEPT ![s] = @ + spent]

Next == ReceiveCashEvent \/ \E s \in Sides : Invest(s)

Spec == Init /\ [][Next]_<<cash, invested>>
=============================================================================
