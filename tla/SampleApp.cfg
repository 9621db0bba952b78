SPECIFICATION FairSpec
CONSTANTS
  Block <- MCBlock
  Capacity = 1024
  BootAddr = 512
  Storage = 976
  Tries = 3
  MaxFail = 2
  AdvIdle = 3
  ConnIdle = 4
  OtaTimeout = 2
  Wrap = 7
  MaxPending = 3
INVARIANTS
  FlashGuarded
  WaitsForCharge
PROPERTIES
  IdleSleeps
  TerminateSparesOta
  AdvertisesBeforeSleep
