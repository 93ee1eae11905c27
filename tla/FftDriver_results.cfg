CONSTANTS
  Harts <- TwoHarts
  Boot <- MCBoot
  N = 1
  Fetches = 1
  Depth = 2
  UsingDMA = TRUE
  Prompt = TRUE
  Junk = Junk
SPECIFICATION Spec
INVARIANTS ResultsCorrect
CHECK_DEADLOCK FALSE
