\* Two payments for a contribution and a fine; webhooks in any order and again once
\* the call is over, redelivered until they are answered.
CONSTANTS
  contribution = contribution
  loan = loan
  fine = fine
  Payments = {p1, p2}
  Targets = {contribution, fine}
  Purpose <- MCPurpose
  Due <- MCDue
  Amounts = {2}
  Hooks = {"SUCCESS", "REVERSED"}
  CashLimit = 2
  AfterCall = TRUE
SPECIFICATION FairSpec
PROPERTIES ImplementsTill PaidIsReceived
CHECK_DEADLOCK FALSE
