SPECIFICATION LogFairSpec
CONSTANTS
  Num = 4
  Wrap = 8
  Channel <- MCBoth
  Builds <- MCOneUser
  SendKind <- MCBothKinds
  PrintKind <- MCShort
  Quota = 2
  MaxLog = 18
INVARIANTS
  OutputInOrder
  NotBusyIsOut
PROPERTIES
  AllComesOut
CHECK_DEADLOCK FALSE
