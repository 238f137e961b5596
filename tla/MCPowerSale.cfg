SPECIFICATION FairSpec
CONSTANTS
  Last = 2
  Opening = 2
  Lead = 1
  Every = 1
  Window = 1
  Lookahead = 1
  Members = {m1}
  Passes = {c1}
  Requests = {r1}
  Horizon = 5
  MaxFailures = 1
INVARIANTS TypeOK DoneMeansPublic LedgerIsTrue
PROPERTIES WindowCloses
CHECK_DEADLOCK FALSE
