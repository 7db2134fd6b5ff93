\* One blind round whose models may have no registered provider.
CONSTANTS
  Kinds = {"blind"}
  MaxTokens = 1
  MaxSteers = 0
SPECIFICATION Spec
INVARIANT
  FaultIsolated
CHECK_DEADLOCK FALSE
