SPECIFICATION MCFairSpec
CONSTANTS
  NPROC = 4
  NSEM = 1
  QUANTUM = 1
  U32MAX = 3
  Prios = {1, 2}
  NewPrios = {}
  Delays = {1, 2}
  Waits = {0, 1}
  Counts = {1}
  MaxCount = 1
INVARIANT HighestRuns
PROPERTY NoStarvation
PROPERTY SleepersWake
PROPERTY WaitersServed
