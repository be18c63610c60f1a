SPECIFICATION Spec
CONSTANTS
  Job = {1}
  Runner = {r1, r2}
  None = None
  NoRow = NoRow
  MaxTime = 1
  DueTimes = {1}
  AttemptCaps = {2}
  RunBounds = {}
  DefaultBound = 0
  MaxConcurrent = 2
  ClaimFactor = 1
  ClaimLimit = 2
  MaxFaults = 2
  MaxEdits = 1
SYMMETRY Symmetry
CHECK_DEADLOCK FALSE
INVARIANTS TypeOK NoLostUpdate RunningHasClaim ClaimHasBody
PROPERTIES TerminalSticky ImplementsLifecycle
