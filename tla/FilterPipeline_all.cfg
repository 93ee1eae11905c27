CONSTANTS
  Width = 3
  Height = 3
  Depth = 2
  Variants <- AllVariants
  Fetched <- AllColours
  WordMod = 16
  SumMod = 8192
  Brightness <- Picture
SPECIFICATION FairSpec
INVARIANTS TypeOK TargetCorrect StopsComplete BytesCorrect
PROPERTIES Terminates
CHECK_DEADLOCK FALSE
