SPECIFICATION Spec
SYMMETRY Workers
CONSTANTS
  Worker = {w1, w2}
  Key = {1, 2}
  Temp = {3, 4}
  Absent = Absent
  Idle = Idle
  Asked <- MCAsked
  PageSize = 1
  Ttl = 1
  Kid = {1, 2}
  MaxTime = 1
  MaxRequests = 3
  MaxFaults = 1
INVARIANTS TypeOK WholeFiles NoOrphans PagesComplete
CHECK_DEADLOCK FALSE
