SPECIFICATION Spec
CONSTANTS
  HeapProcs = {p1, p2, p3}
  HeapSize = 12
  StackSize = 2
  Sizes = {1, 2}
INVARIANT KillReturns
