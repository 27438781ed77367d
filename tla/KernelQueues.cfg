SPECIFICATION MCSpec
CONSTANTS
  NPROC = 4
  NSEM = 1
  QUANTUM = 1
  U32MAX = 3
  Prios = {1}
  NewPrios = {}
  Delays = {1, 3}
  Waits = {2}
  Counts = {0, 1}
  MaxCount = 1
INVARIANT SemConsistent
INVARIANT DelaysExact
PROPERTY WokenOnTime
PROPERTY SemaphoresRefined
