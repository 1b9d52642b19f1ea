\* Webhooks in order, one at a time, after the payout call; two payloads per
\* status, demo releases, every payload redelivered until it is answered.
CONSTANTS
  Loans = {l1}
  Requests = {r1, r2}
  Principal <- MCPrincipal
  Fees = {1}
  OpeningCash = 6
  LedgerFunds = 6
  Hooks = {"SUCCESS", "FAILED"}
  Copies = {1, 2}
  DemoPayouts = TRUE
  Orderly = TRUE
SPECIFICATION FairSpec
PROPERTIES ImplementsEscrow OutcomeRecorded
CHECK_DEADLOCK FALSE
