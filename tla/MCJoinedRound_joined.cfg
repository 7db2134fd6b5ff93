\* One joined round, with a backlog short enough to overflow.
CONSTANTS
  Kinds = {"joined"}
  MaxTokens = 1
  MaxSteers = 1
  MaxQueued = 2
SPECIFICATION Spec
PROPERTIES
  ReadersView
  EndsWithItsSlot
  BothRecorded
CHECK_DEADLOCK FALSE
