---------------------------- MODULE MCDocuments -----------------------------
(***************************************************************************)
(* Instances of Documents for TLC.                                         *)
(***************************************************************************)
EXTENDS Documents, TLC

\* One item in the first section of the agenda.
MCSectionOf == [i \in Items |-> 1]

Symmetry == Permutations(Editors)
=============================================================================
