CONSTANTS
  i1 = i1
  i2 = i2
  Ports <- TwoPorts
  Initiators <- TwoInitiators
  AddrMod = 4
  Mappings = 2
  Held = 1
SPECIFICATION Spec
SYMMETRY Symmetry
INVARIANTS TypeOK RangesAdjusted DirectAsRouted NothingStale
CHECK_DEADLOCK FALSE
