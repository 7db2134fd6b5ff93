\* One round of every kind on one connection, stopped and steered at any point,
\* read through every wire format.
CONSTANTS
  Kinds = {"blind", "single", "shadow"}
  MaxTokens = 1
  MaxSteers = 2
SPECIFICATION WiredSpec
INVARIANTS
  EveryReaderAgrees
  AnswersStand
  NothingRunsBehind
PROPERTIES
  ReadersView
  StopHolds
  ResponseEnds
CHECK_DEADLOCK FALSE
