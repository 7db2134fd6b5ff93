SPECIFICATION MCSpec
CONSTANTS
  ModelOrder <- MCModelOrder
  IdOrder <- MCIdOrder
  Matchups <- MCMatchups
  SlotA <- MCSlotA
  SlotB <- MCSlotB
  SessionOf <- MCSessionOf
  NoSession = "anonymous"
  Ballots <- MCBallots
  MinForPosition = 2
  MinForVolume = 2
  FullRefitEvery = 2
  WithStyle = TRUE
  MaxToggles = 1
  MaxFaults = 1
INVARIANTS PassIsFaithful WarmChainBounded TalliesAgree StylePanelTrue
PROPERTIES StyleReadCovers RatingsCatchUp
ACTION_CONSTRAINT Focus
