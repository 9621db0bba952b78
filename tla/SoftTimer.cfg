SPECIFICATION TimersFairSpec
CONSTANTS
  f = f
  g = g
  None = None
  Callback <- MCCallback
  Interval = {2, 4}
  MaxTimers = 3
  WordMod = 40
  SortSpan = 9
  MarginPre = 1
  MarginPost = 5
  WakeSpan = 3
  MaxGap = 1
  Reentrant = TRUE
INVARIANTS
  TableConsistent
  NoTimerMissed
PROPERTY
  EveryTimerServed
