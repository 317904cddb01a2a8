SPECIFICATION Spec
CONSTANTS
  Vm = {1, 2, 3}
  Node = {0, 1}
  NetNode = 0
  Lat <- const_Lat
  Pps = {0, 2}
  Idle = {FALSE, TRUE}
  io_threshold = 1
INVARIANTS
  NonIdleCounted
