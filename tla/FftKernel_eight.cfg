CONSTANTS
  Formats <- OnlyExact
  P = 1279
  M = 3
  N = 8
  Scale = 1024
  Turn <- TurnOf256
  NthRoot <- Rotation8
  Circle <- Circle16
  Depth = 2
  Inputs <- OneInput
  Outside <- SomeWords
  ClearsOutside = FALSE
SPECIFICATION Spec
INVARIANTS ResultsCorrect
