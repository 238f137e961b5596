\* Held money on a delivered order, read again and again.
CONSTANTS
  Price = 2
  Advance = 1
  Methods = {"protected"}
  KeptMax = 0
  TypedMax = 2
  MaxCredits = 0
SPECIFICATION FairSpec
PROPERTIES HeldDeliveredEnds
