\* Two requests at a time about two loans of one borrower, who may have one at a time.
CONSTANTS
  LastMonth = 6
  Borrowers = {b1}
  Products <- MCProducts
  Days <- MCDays
  Savings = 3000
  MinimumSavings = 1000
  MaxConcurrent = 1
  Calls = {c1, c2}
  MaxLoans = 2
  MaxEdits = 1
SPECIFICATION Spec
INVARIANTS TypeOK LimitKept TermsHold
PROPERTY DecisionStands
SYMMETRY Symmetry
CHECK_DEADLOCK FALSE
