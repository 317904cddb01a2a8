SPECIFICATION Spec
CONSTANTS
  Dom = {1}
  Cpu = {0, 1}
  Node = {0, 1}
  NodeOf <- const_NodeOf
  Happens = {"STARTED", "STOPPED"}
  MaxPending = 1
PROPERTIES
  InitReportsFailure
CHECK_DEADLOCK FALSE
