\* Everything ClickPesa, the network and the workers may do; demo releases off.
CONSTANTS
  Loans = {l1}
  Requests = {r1, r2}
  Principal <- MCPrincipal
  Fees = {1}
  OpeningCash = 6
  LedgerFunds = 6
  Hooks = {"PROCESSING", "SUCCESS", "FAILED", "REVERSED"}
  Copies = {1}
  DemoPayouts = FALSE
  Orderly = FALSE
SPECIFICATION Spec
INVARIANTS TypeOK OneActivePayout ReleasedNeverPays PaidOncePerLoan ActiveMeansPaid EscrowBacked SuccessIsDisbursed
SYMMETRY Symmetry
CHECK_DEADLOCK FALSE
