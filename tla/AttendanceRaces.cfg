\* Two handlers at a time on a meeting of a host and a member.
CONSTANTS
  Host = host
  Members = {m1}
  Calls = {c1, c2}
  MaxSessions = 2
  MaxTime = 2
SPECIFICATION Spec
INVARIANTS TypeOK ClosedAtEnd OneOpenUncrossed EndedRowsMatch
PROPERTY Repaired
SYMMETRY Symmetry
CHECK_DEADLOCK FALSE
