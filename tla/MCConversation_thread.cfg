\* Three requests race for one conversation, or two sessions share two of them.
CONSTANTS
  Requests = {r1, r2, r3}
  Ballots = {b1, b2}
  Sessions = {alice, bob}
  m1 = m1
  m2 = m2
  Models <- TwoModels
  Pairings <- BothWays
  PlanModes = {"blind", "shadow"}
  None = None
SPECIFICATION Spec
SYMMETRY Symmetry
ACTION_CONSTRAINT Focus
INVARIANTS
  LinearThread
  HistoryIsThread
  RepliesAreTrue
  OneVoteCounts
  VoteCredited
  OwnerContinues
PROPERTIES
  ImplementsThread
CHECK_DEADLOCK FALSE
