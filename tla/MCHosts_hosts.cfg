SPECIFICATION HostsSpec
CONSTANTS
  MaxPrompts = 2
  MaxVotes = 2
  MaxReloads = 2
  MaxFaults = 1
INVARIANTS VerdictIsRecorded OpenRoundVotable
PROPERTIES VerdictStays ReloadContinues
CHECK_DEADLOCK FALSE
