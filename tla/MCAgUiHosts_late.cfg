SPECIFICATION Spec
CONSTANTS
  MaxPrompts = 3
  MaxVotes = 1
  MaxReloads = 2
  MaxFaults = 1
INVARIANT OpenRoundSurvives
CHECK_DEADLOCK FALSE
