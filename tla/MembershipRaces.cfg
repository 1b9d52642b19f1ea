\* Two requests at a time, six in all, of a founder, two other users and an
\* email without an account.
CONSTANTS
  Founder = founder
  Others = {u1, u2}
  Strangers = {s1}
  Calls = {c1, c2}
  Offered = {"CHAIRPERSON", "SECRETARY"}
  MaxCalls = 6
  MaxInvites = 2
SPECIFICATION Spec
INVARIANTS TypeOK AcceptedAreMembers
PROPERTIES SeatKept AnswerStands
SYMMETRY Symmetry
CHECK_DEADLOCK FALSE
