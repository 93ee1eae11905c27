CONSTANTS
  Harts <- MCHarts
  Boot <- MCBoot
  WordMod <- MCWordMod
  InitCount <- GateCount
  Grant <- GateGrant
SPECIFICATION FairSpec
INVARIANTS TypeOK ReservationFresh UnitsConserved
PROPERTIES IsSemaphore PostReturns UnitIsTaken
