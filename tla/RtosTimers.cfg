SPECIFICATION FairSpec
CONSTANTS
  Timer = {a, o}
  AutoReload = {a}
  Deletable = {o}
  Periods = {1, 3}
  TickMod = 6
  QueueLength = 3
  Room = 2
  SendLag = 1
  Lag = 1
INVARIANTS WakesInTime NotForgotten NeverEarly
PROPERTY ServedForEver
