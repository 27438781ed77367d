SPECIFICATION MCSpec
CONSTANTS
  Procs = {p1, p2, p3}
  NSEM = 3
  MaxKills = 1
  NPORTS = 1
  PT_MSGS = 1
  U16MAX = 3
  PortCounts = {1, 2}
  MaxSeq = 3
  NBPOOLS = 2
  NBUFS = 2
  PoolSizes = {1, 2}
  Markers = {m1, m2, m3}
  Locs = {l1, l2, l3}
  MAXMARK = 2
  ADDRESS = 100
INVARIANT MarkedStays
INVARIANT NodesConserved
CHECK_DEADLOCK FALSE
INVARIANT NobodyWaitsInVain
INVARIANT PortsAccounted
INVARIANT BuffersAccounted
PROPERTY PortsAreChannels
SYMMETRY Symmetry
