SPECIFICATION FairSpec
CONSTANTS
  d1 = d1
  d2 = d2
  d3 = d3
  Device <- MCDevice
  MaxBonds = 3
  NSlots = 10
  AddCap = 2
  Blank = Blank
  Erased = Erased
  NoDevice = NoDevice
INVARIANTS
  TypeOK
  NeverHalts
  RescanFindsTable
PROPERTIES
  CallsEnd
  ProgramsOnlyBlank
  ImplementsBondStore
