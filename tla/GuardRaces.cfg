SPECIFICATION Spec
CONSTANTS
  Process = {p1, p2}
  Request = {r1, r2}
  None = None
  TTL = 2
  MaxTime = 3
  MaxWrites = 3
  MaxFaults = 1
SYMMETRY GuardSymmetry
CHECK_DEADLOCK FALSE
INVARIANT TypeOK
INVARIANT StaleForLessThanTTL
INVARIANT AppliedHereAtOnce
