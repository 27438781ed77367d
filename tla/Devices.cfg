SPECIFICATION MCSpec
CONSTANTS
  p1 = p1
  p2 = p2
  p3 = p3
  Procs = {p1, p2, p3}
  NSEM = 2
  MaxKills = 0
  TY_IBUFLEN = 3
  TY_OBUFLEN = 2
  TY_EBUFLEN = 2
  UART_FIFO_SIZE = 1
  TypedChars = {"c", "nl", "erase", "kill", "eof", "stop", "start"}
  ReadCounts = {0, 2}
  WriteCounts = {2}
  Names = {"a", "b"}
  Nlfl = 2
  LF_BLKSIZ = 2
  LF_IBLEN = 2
  LF_NUM_DIR_ENT = 2
  IBLKS = 2
  DiskSizes = {2, 3}
  Bytes = {"a", "b"}
  Modes <- MCModes
  MaxIO = 2
  MaxSize = 5
  Chars = {"/", "d", "l", "r", "~"}
  devtab <- MCdevtab
  namdev = 2
  LFILESYS = 3
  RFILESYS = 4
  NULLDEV = 6
  NM_PRELEN = 6
  NM_REPLLEN = 4
  NM_MAXLEN = 16
  NNAMES = 14
  CharBits = 4
  MountArgs <- MCMountArgs
  HeapProcs = {p1, p2, p3}
  HeapSize = 12
  StackSize = 2
  Sizes = {1, 2}
INVARIANT InputAccounted
INVARIANT NoLostKick
INVARIANT LfDiskConsistent
INVARIANT Partition
INVARIANT ListedInUse
INVARIANT FreeListExact
INVARIANT OutputExact
PROPERTY FilesAreSequences
PROPERTY NsNamesKept
SYMMETRY Symmetry
CHECK_DEADLOCK FALSE
