\* Two transactions at a time, five in all, on the wallets of two members.
CONSTANTS
  m1 = m1
  m2 = m2
  Roster <- MCRoster
  Calls = {c1, c2}
  Principal = 1
  Repayable = 2
  FineAmount = 2
  MaxCalls = 5
SPECIFICATION Spec
INVARIANTS TypeOK WalletsExact BooksAgree NoLockCycle
PROPERTY Repaired
SYMMETRY Symmetry
CHECK_DEADLOCK FALSE
