SPECIFICATION MCSpec
SYMMETRY Callers
CONSTANTS
  Caller = {c1, c2}
  Row = {1, 2}
  Absent = Absent
  None = None
  All = All
  Overrides <- MCOverrides
  Window = 1
  Asked <- MCAsked
  Edits <- MCEdits
  Elsewhere <- MCElsewhere
  PageSize = 1
  Second = 2
  FetchTime = 1
  MaxTime = 2
  MaxReads = 3
  MaxWrites = 1
INVARIANTS TypeOK StalenessBounded EvictionSuffices ConfirmedRowsCurrent NarrowedStaysPrivate
CHECK_DEADLOCK FALSE
