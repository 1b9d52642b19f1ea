---------------------------- MODULE MCCollection ----------------------------
(***************************************************************************)
(* Instances of Collection for TLC.                                        *)
(***************************************************************************)
EXTENDS Collection, TLC

CONSTANTS contribution, loan, fine

MCPurpose == [t \in Targets |-> CASE t = contribution -> "CONTRIBUTION"
                                  [] t = loan -> "LOAN_REPAYMENT"
                                  [] t = fine -> "PENALTY_PAYMENT"]
MCDue == [t \in Targets |-> 2]

Symmetry == Permutations(Payments)
=============================================================================
