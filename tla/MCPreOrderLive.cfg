CONSTANTS
  ann = ann
  bob = bob
  r1 = r1
  Clock = clock
  Buyers = {ann, bob}
  Units <- UnitsOfBuyers
  Requests = {r1}
  Ops = {"pledge", "place", "decide", "edit"}
  Thresholds = {2}
  Rules <- OneRule
  Grace = 1
  DecisionTime = 1
  LastCallTime = 1
  Horizon = 3
  MaxPledges = 1
  MaxLog = 2
  AtOnce = 2
  MaxDeaths = 0
SPECIFICATION FairSpec
PROPERTIES DueIsSettled
