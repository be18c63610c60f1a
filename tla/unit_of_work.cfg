SPECIFICATION MCFairSpec
CONSTANTS
  Request = {q1, q2}
  a1 = a1
  a2 = a2
  b1 = b1
  m1 = m1
  A = A
  B = B
  M = M
  Resource <- MCResource
  Engine <- MCEngine
  EngineOf <- MCEngineOf
  Transactional = {A, B}
  Batches <- MCBatches
  Triggered = {a1, a2}
  Inline = {a2}
  Absent = Absent
  Seeded = Seeded
  Unwritten = Unwritten
  MaxFaults = 1
INVARIANTS TypeOK NoPartialBatch SessionOutlivesServices FiredOnce
PROPERTIES ImplementsAtomicBatches RequestEnds
CHECK_DEADLOCK FALSE
