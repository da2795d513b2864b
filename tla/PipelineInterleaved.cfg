SPECIFICATION Spec
CONSTANTS
  a = a
  b = b
  Worker = {w1, w2}
  Job = {j1, j2}
  None = None
  Offer <- TwoOffers
  Sku <- TwoOffers
  SkuOf <- OneSkuEach
  Price = {1, 2}
  Selections <- NoneOrOne
  Payloads = {"ok"}
  MaxAttempts = 2
  MaxTries = 1
  MaxStalls = 1
  MaxRetries = 0
  MaxFaults = 1
CHECK_DEADLOCK FALSE
SYMMETRY Symmetry
INVARIANT RecordsAreTrue
INVARIANT DiscardedMakeNoOffer
INVARIANT DealShowsApprovedQuote
PROPERTY ImplementsBoard
