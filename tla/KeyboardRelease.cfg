SPECIFICATION Spec
CONSTANTS
  Key <- MCKey
  RowOf <- MCRowOf
  Consumer <- MCConsumer
  NoKey = NoKey
  ReleaseCnt = 6
  MaxPressed = 2
INVARIANT
  ReleaseReachesHost
