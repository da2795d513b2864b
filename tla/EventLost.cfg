SPECIFICATION Spec
CONSTANTS
  Handler = {h1, h2, h3}
  Event = {e1}
  Source = {webhook, extension}
  None = None
  FaultKinds = {"add"}
  MaxDeliveries = 4
  MaxFaults = 3
CHECK_DEADLOCK FALSE
SYMMETRY HandlerSymmetry
INVARIANT NoEventIsLost
