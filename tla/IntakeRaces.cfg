SPECIFICATION Spec
CONSTANTS
  Handler = {h1, h2, h3}
  Event = {e1}
  Source = {webhook, extension}
  None = None
  FaultKinds = {"claim", "add", "release", "crash"}
  MaxDeliveries = 4
  MaxFaults = 3
CHECK_DEADLOCK FALSE
INVARIANT TypeOK
INVARIANT OneJobPerKey
INVARIANT LossHasACause
INVARIANT OneOwner
PROPERTY RetriesGetThrough
