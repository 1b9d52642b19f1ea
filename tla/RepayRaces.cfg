\* Overlapping repayments and the overdue job, with and without late fees.
CONSTANTS
  N = 3
  Due <- MCDue
  LateFees = {0, 1}
  Amounts = {1, 2, 3}
  Payers = {p1, p2}
  Job = job
  LastDay = 4
SPECIFICATION Spec
INVARIANTS TypeOK InstallmentsSound SerialSound
SYMMETRY Symmetry
CHECK_DEADLOCK FALSE
