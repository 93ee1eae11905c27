CONSTANTS
  Harts <- ThreeHarts
  Boot <- MCBoot
  Sections = 2
SPECIFICATION FairSpec
INVARIANTS TypeOK SectionsExclude BarrierHolds BarrierRestored ExitAfterAll
PROPERTIES Terminates
CHECK_DEADLOCK FALSE
