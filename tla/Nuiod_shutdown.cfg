SPECIFICATION FairSpec
CONSTANTS
  Dom = {1}
  Cpu = {0, 1}
  Node = {0, 1}
  NodeOf <- const_NodeOf
  Happens = {"STARTED", "SUSPENDED", "RESUMED", "SHUTDOWN", "STOPPED", "CRASHED", "PMSUSPENDED"}
  MaxPending = 2
PROPERTIES
  ShutdownForgotten
  ActiveLearned
CHECK_DEADLOCK FALSE
