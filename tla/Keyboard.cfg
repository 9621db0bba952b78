SPECIFICATION FairSpec
CONSTANTS
  Key <- MCKey
  RowOf <- MCRowOf
  Consumer <- MCConsumer
  NoKey = NoKey
  ReleaseCnt = 6
  MaxPressed = 4
INVARIANTS
  TypeOK
  StopsReleased
PROPERTY
  HeldKeyReported
