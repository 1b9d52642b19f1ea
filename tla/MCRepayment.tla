----------------------------- MODULE MCRepayment -----------------------------
(***************************************************************************)
(* Instances of Repayment for TLC.                                         *)
(***************************************************************************)
EXTENDS Repayment, TLC

MCDue == [i \in Numbers |-> 2]

Symmetry == Permutations(Payers)
=============================================================================
