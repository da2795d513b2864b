SPECIFICATION Spec
CONSTANTS
  r1 = r1  r2 = r2  u1 = u1  u2 = u2  b1 = b1  b2 = b2
  Rate = {r1, r2}
  Unit = {u1, u2}
  Board = {b1, b2}
  None = None
  Price = {0, 1, 2}
  Responses <- MCResponses
  Filters <- MCFilters
CHECK_DEADLOCK FALSE
INVARIANT TypeOK
INVARIANT LeavesTheCheapestPermitted
INVARIANT EveryDropIsTraced
INVARIANT NeverFreeByQuote
