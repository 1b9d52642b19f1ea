------------------------------- MODULE Escrow -------------------------------
(***************************************************************************)
(* What the payment wallet promises about payouts: a payout's cost is held *)
(* once, out of the available cash, and a held cost is spent once or given *)
(* back once.  A payout that is over stays over.                           *)
(***************************************************************************)
EXTENDS Integers

CONSTANTS
  Payouts,  \* payouts that may be asked for, each at most once
  Costs,    \* what a payout may cost
  Opening   \* cash at first

VARIABLES stage, cost, balance, available, reserved

vars == <<stage, cost, balance, available, reserved>>

Init ==
  /\ stage = [p \in Payouts |-> "absent"]
  /\ cost = [p \in Payouts |-> 0]
  /\ balance = Opening /\ available = Opening /\ reserved = 0

Hold(p, c) ==
  /\ stage[p] = "absent" /\ c <= available
  /\ stage' = [stage EXCEPT ![p] = "held"]
  /\ cost' = [cost EXCEPT ![p] = c]
  /\ available' = available - c /\ reserved' = reserved + c
  /\ UNCHANGED balance

Spend(p) ==
  /\ stage[p] = "held"
  /\ stage' = [stage EXCEPT ![p] = "spent"]
  /\ balance' = balance - cost[p] /\ reserved' = reserved - cost[p]
  /\ UNCHANGED <<cost, available>>

GiveBack(p) ==
  /\ stage[p] = "held"
  /\ stage' = [stage EXCEPT ![p] = "returned"]
  /\ available' = available + cost[p] /\ reserved' = reserved - cost[p]
  /\ UNCHANGED <<cost, balance>>

Next == \E p \in Payouts : (\E c \in Costs : Hold(p, c)) \/ Spend(p) \/ GiveBack(p)

Spec == Init /\ [][Next]_vars
=============================================================================
