SPECIFICATION Spec
CONSTANTS
  Request = {r1}
  Code = {c1}
  None = None
  Keep = Keep
  MaxWrites = 1
  MaxTokens = 1
  MaxFaults = 0
CHECK_DEADLOCK FALSE
INVARIANT CreatedUrlIsShown
