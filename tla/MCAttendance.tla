---------------------------- MODULE MCAttendance ----------------------------
(***************************************************************************)
(* Instances of Attendance for TLC.                                        *)
(***************************************************************************)
EXTENDS Attendance, TLC

Symmetry == Permutations(Calls)
=============================================================================
