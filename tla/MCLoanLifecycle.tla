-------------------------- MODULE MCLoanLifecycle ---------------------------
(***************************************************************************)
(* Instances of LoanLifecycle for TLC.                                     *)
(***************************************************************************)
EXTENDS LoanLifecycle, TLC

\* Interest that is a tie, shares so small that their rounding outweighs the last,
\* and no duration at all.
MCProducts ==
  {[amount |-> 3000, rate |-> 125, unit |-> "MONTHS", count |-> 2],
   [amount |-> 11,   rate |-> 0,   unit |-> "WEEKS",  count |-> 7],
   [amount |-> 1000, rate |-> 50,  unit |-> "DAYS",   count |-> 0]}

\* The end of January and a day by which a short month has passed.
MCDays == {[month |-> 0, day |-> 31], [month |-> 2, day |-> 15]}

Symmetry == Permutations(Calls)
=============================================================================
