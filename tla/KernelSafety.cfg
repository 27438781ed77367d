SPECIFICATION Spec
CONSTANTS
  NPROC = 3
  NSEM = 1
  QUANTUM = 2
  U32MAX = 3
  Prios = {1, 2}
  NewPrios = {1}
  Delays = {0, 1}
  Waits = {2}
  Counts = {0, 1}
  MaxCount = 1
INVARIANT TypeOK
INVARIANT QueueConsistent
INVARIANT CountConsistent
INVARIANT NoWrap
PROPERTY DeferHolds
