CONSTANTS
  Formats <- Both
  P = 1279
  M = 4
  N = 16
  Scale = 1024
  Turn <- TurnOf16
  NthRoot <- Rotation16
  Circle <- Circle16
  Depth = 2
  Inputs <- SomeInputs
  Outside <- SomeWords
  ClearsOutside = TRUE
SPECIFICATION FairSpec
INVARIANTS TypeOK BlocksCorrect ResultsCorrect
PROPERTIES RoundsGoOn
