CONSTANTS
  Harts <- TwoHarts
  Boot <- MCBoot
  N = 2
  Fetches = 2
  Depth = 4
  UsingDMA = FALSE
  Prompt = FALSE
  Junk = Junk
SPECIFICATION FairSpec
INVARIANTS ResultsCorrect
PROPERTIES Terminates
CHECK_DEADLOCK FALSE
