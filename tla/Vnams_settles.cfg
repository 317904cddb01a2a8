SPECIFICATION FairVnams
CONSTANTS
  Dom = {1, 2}
  Cpu = {0, 1, 2}
  Node = {0, 1}
  NodeOf <- const_NodeOf
  Happens = {}
  MaxPending = 1
  NetNode = 1
  Lat <- const_Lat
  Pps = {0, 1, 2}
  Idle = {FALSE}
  Loads <- const_Loads
  io_threshold = 1
INVARIANTS
  VnamsTypeOK
PROPERTIES
  ImplementsDaemon
  Settles
CHECK_DEADLOCK FALSE
