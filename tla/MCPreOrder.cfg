CONSTANTS
  ann = ann
  bob = bob
  r1 = r1
  Clock = clock
  Buyers = {ann, bob}
  Units <- UnitsOfBuyers
  Requests = {r1}
  Ops = {"pledge", "place", "decide", "edit"}
  Thresholds = {2}
  Rules <- RulePairs
  Grace = 1
  DecisionTime = 1
  LastCallTime = 1
  Horizon = 3
  MaxPledges = 3
  MaxLog = 2
  AtOnce = 2
  MaxDeaths = 1
SPECIFICATION Spec
INVARIANTS TypeOK CalledOffOnce
PROPERTIES OverIsOver LetGoAfterGrace CloseCallsOffWhatItRead
