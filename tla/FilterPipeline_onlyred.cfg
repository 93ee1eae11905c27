CONSTANTS
  Width = 1
  Height = 4
  Depth = 2
  Variants <- OneThread
  Fetched <- OnlyRed
  WordMod = 16
  SumMod = 8192
  Brightness <- Picture
SPECIFICATION FairSpec
PROPERTIES Terminates
CHECK_DEADLOCK FALSE
