SPECIFICATION FairSpec
CONSTANTS
  Task = {"idle", "a", "b", "c"}
  Idle = "idle"
  End = "end"
  Queue = {"data", "slot", "m", "n"}
  Mutex = {"m", "n"}
  Length <- MCLength
  Scenarios <- MCScenarios
  MaxPriorities = 4
  TickMod = 4
  SleepThreshold = 2
  SleepsIntoWrap = FALSE
  PendBound = 1
  NotifyBound = 2
  LockBound = 2
INVARIANTS ListsConsistent HighestPriorityRuns NobodyOverslept InheritsPriority NoLostWakeUp
PROPERTIES QueueIsFifo CallsReturn
