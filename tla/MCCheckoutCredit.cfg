\* Credit spent at checkout and moved by hand, with requests that may die.
CONSTANTS
  o1 = o1
  o2 = o2
  o3 = o3
  r1 = r1
  r2 = r2
  r3 = r3
  r4 = r4
  k1 = k1
  NoKey = NoKey
  Handlers = {"pay", "book", "accept", "apply", "assign", "reject"}
  Checkouts = {o1, o2}
  Requests = {r1, r2, r3}
  Prices = {2}
  Stock = 2
  Sources = {1, 2}
  Kept <- KeptOnTwo
  Failures = TRUE
  Keys = {k1}
SYMMETRY Symmetry
SPECIFICATION Spec
INVARIANTS NoCreditFromNowhere CreditWithinKept BookingSpentByOne
CHECK_DEADLOCK FALSE
