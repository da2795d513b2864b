SPECIFICATION Spec
CONSTANTS
  a = a
  b = b
  Worker = {w1}
  Job = {j1}
  None = None
  Offer <- TwoOffers
  Sku <- TwoOffers
  SkuOf <- OneSkuEach
  Price = {1, 2}
  Selections <- NoneOneOrTwo
  Payloads = {"ok"}
  MaxAttempts = 2
  MaxTries = 2
  MaxStalls = 1
  MaxRetries = 1
  MaxFaults = 3
CHECK_DEADLOCK FALSE
INVARIANT QuoteNotCreatedAgain
