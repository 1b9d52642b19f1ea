\* A refund reported after the payout succeeded, in order and alone.
CONSTANTS
  Loans = {l1}
  Requests = {r1}
  Principal <- MCPrincipal
  Fees = {1}
  OpeningCash = 5
  LedgerFunds = 5
  Hooks = {"SUCCESS", "REVERSED"}
  Copies = {1}
  DemoPayouts = FALSE
  Orderly = TRUE
SPECIFICATION Spec
INVARIANT ReversalApplied
CHECK_DEADLOCK FALSE
