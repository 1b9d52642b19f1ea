------------------------------ MODULE MCWallets ------------------------------
(***************************************************************************)
(* Instances of Wallets for TLC.                                           *)
(***************************************************************************)
EXTENDS Wallets, TLC

CONSTANTS m1, m2

MCRoster == <<m1, m2>>
Symmetry == Permutations(Calls)
=============================================================================
