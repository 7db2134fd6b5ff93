SPECIFICATION HostsSpec
CONSTANTS
  MaxPrompts = 2
  MaxVotes = 2
  MaxReloads = 1
  MaxFaults = 0
INVARIANT FreshMessageAccepted
CHECK_DEADLOCK FALSE
