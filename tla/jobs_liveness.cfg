SPECIFICATION StartedFairSpec
CONSTANTS
  Job = {1, 2}
  Runner = {r1, r2}
  None = None
  NoRow = NoRow
  MaxTime = 1
  DueTimes = {None, 1}
  AttemptCaps = {1}
  RunBounds = {}
  DefaultBound = 0
  MaxConcurrent = 2
  ClaimFactor = 1
  ClaimLimit = 1
  MaxFaults = 1
  MaxEdits = 0
PROPERTIES NoJobStuckRunning SweepEnds
CHECK_DEADLOCK FALSE
