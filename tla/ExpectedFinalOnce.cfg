CONSTANTS
  p1 = p1
  p2 = p2
  m1 = m1
  m2 = m2
  m3 = m3
  r1 = r1
  r2 = r2
  Raiser = p1
  Respondent = p2
  People = {m1, m2, m3, p1}
  First = m1
  Rank <- Longest
  Requests = {r1, r2}
  Handlers = {"offer", "accept", "withdraw", "decide", "escalate", "agree", "dismiss"}
  MaxDecisions = 3
  MaxOffers = 1
SPECIFICATION RepliedSpec
INVARIANTS ResultFinalOnce
CHECK_DEADLOCK FALSE
