SPECIFICATION AFairSpec
CONSTANTS
  NPROC = 3
  NSEM = 1
  QUANTUM = 1
  U32MAX = 3
  Prios = {1}
  NewPrios = {}
  Delays = {1}
  Waits = {}
  Counts = {}
  MaxCount = 1
  Msgs = {m1}
  Depths = {1}
PROPERTY TimeSliced
