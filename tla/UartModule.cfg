SPECIFICATION FairSpec
CONSTANTS
  c1 = c1
  rst = rst
  Cmd <- MCCmd
  RestartCmd = rst
  Ev = Ev
  Zero = Zero
  Torn = Torn
  None = None
  Builds <- MCBuilds
INVARIANTS TypeOK HostAwakeForMessages SleepsOnlyIdle
PROPERTIES ExecutesWhatWasSent DeliversInOrder KeepsMoving
