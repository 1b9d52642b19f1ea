-------------------------------- MODULE Till --------------------------------
(***************************************************************************)
(* What the payment wallet promises about collections: a payment asked for *)
(* is banked at most once, a banked payment stays banked, and the till     *)
(* holds exactly what was banked.                                          *)
(***************************************************************************)
EXTENDS Integers

CONSTANTS
  Deposits,  \* payments that may be asked for, each at most once
  Sums       \* amounts that may be asked for

VARIABLES worth, banked, till

vars == <<worth, banked, till>>

Init ==
  /\ worth = [d \in Deposits |-> 0]
  /\ banked = {}
  /\ till = 0

Ask(d, s) ==
  /\ worth[d] = 0
  /\ worth' = [worth EXCEPT ![d] = s]
  /\ UNCHANGED <<banked, till>>

Bank(d) ==
  /\ worth[d] > 0 /\ d \notin banked
  /\ banked' = banked \cup {d}
  /\ till' = till + worth[d]
  /\ UNCHANGED worth

Next == \E d \in Deposits : (\E s \in Sums : Ask(d, s)) \/ Bank(d)

Spec == Init /\ [][Next]_vars
=============================================================================
