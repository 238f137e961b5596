\* One order, both ways to pay on offer.
CONSTANTS
  Price = 2
  Advance = 1
  Methods = {"direct", "protected"}
  KeptMax = 2
  TypedMax = 2
  MaxCredits = 1
SPECIFICATION Spec
INVARIANTS TypeOK RefundLedger NeverPaidOver ReversalHasMoney DeliveredHeldHasClock
PROPERTIES HoldIsAsPromised
