\* Every interleaving of two payments for a loan, with cash repayments.
CONSTANTS
  contribution = contribution
  loan = loan
  fine = fine
  Payments = {p1, p2}
  Targets = {loan}
  Purpose <- MCPurpose
  Due <- MCDue
  Amounts = {1, 2}
  Hooks = {"SUCCESS", "SETTLED", "FAILED", "OTHER"}
  CashLimit = 2
  AfterCall = FALSE
SPECIFICATION Spec
INVARIANTS TypeOK BooksWithinWallet ClosedIsRepaid CreditedOnce
SYMMETRY Symmetry
CHECK_DEADLOCK FALSE
