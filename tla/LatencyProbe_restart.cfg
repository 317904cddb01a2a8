SPECIFICATION FairSpec
CONSTANTS
  numa_number = 2
  other_number = 1
  MaxBoots = 2
  RAND_ARRAY_SIZE = 4
  nblk = 3
INVARIANTS
  TypeOK
  BufferTypeOK
  ProbeTypeOK
  GarbageOnlyFromCutFile
  OneChain
  ReadsWholeBuffer
  OwnBufferOnly
  ZerosFirst
PROPERTIES
  ImplementsStartup
  CompleteFileKept
  JoinReturns
  Ready
CHECK_DEADLOCK FALSE
