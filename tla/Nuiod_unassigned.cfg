SPECIFICATION Spec
CONSTANTS
  Dom = {1, 2}
  Cpu = {0, 1, 2}
  Node = {0, 1}
  NodeOf <- const_NodeOf
  Happens = {"STARTED"}
  MaxPending = 1
PROPERTIES
  PicksUnassignedCpu
CHECK_DEADLOCK FALSE
