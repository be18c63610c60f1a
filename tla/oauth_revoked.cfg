SPECIFICATION Spec
CONSTANTS
  Request = {q1, q2, q3}
  None = None
  NoRow = NoRow
  Lifetime = 1
  Skew = 0
  LeaseSeconds = 1
  PollAttempts = 2
  MaxTime = 2
  MaxTokens = 3
  MaxFaults = 1
PROPERTIES RevokedOnFailure
CHECK_DEADLOCK FALSE
