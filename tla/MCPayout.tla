------------------------------ MODULE MCPayout ------------------------------
(***************************************************************************)
(* Instances of Payout for TLC.                                            *)
(***************************************************************************)
EXTENDS Payout, TLC

MCPrincipal == [l \in Loans |-> 2]

Symmetry == Permutations(Requests) \cup Permutations(Loans)
=============================================================================
