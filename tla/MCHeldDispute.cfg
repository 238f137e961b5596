CONSTANTS
  d1 = d1
  d2 = d2
  r1 = r1
  r2 = r2
  r3 = r3
  r4 = r4
  NoDispute = NoDispute
  Disputes = {d1, d2}
  Requests = {r1, r2, r3, r4}
  Handlers = {"open", "settle", "withdraw", "release", "receive", "reply"}
  Held = 2
  Splits = {0, 1, 2}
  Failures = TRUE
SYMMETRY Symmetry
SPECIFICATION Spec
INVARIANTS TypeOK PaidAsAgreed ReleasedIsCounted
PROPERTIES HoldLeavesOnce
CHECK_DEADLOCK FALSE
