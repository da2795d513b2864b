SPECIFICATION Spec
CONSTANTS
  Request = {r1, r2, r3}
  Code = {c1, c2}
  None = None
  Keep = Keep
  MaxWrites = 3
  MaxTokens = 2
  MaxFaults = 1
CHECK_DEADLOCK FALSE
INVARIANT TypeOK
INVARIANT CodeAsSaved
INVARIANT SettingsInForceRecorded
