SPECIFICATION Spec
CONSTANTS
  Vm = {1, 2, 3, 4, 5}
  Node = {0, 1, 2, 3}
  NetNode = 1
  Lat <- const_Lat
  Pps = {0, 1}
  Idle = {FALSE, TRUE}
  io_threshold = 1
INVARIANTS
  TypeOK
  DecidesOnce
  TakesFromNonEmpty
  NeverRaisesPeak
  NetdevVmsStay
  OthersLevel
  LoopBounded
PROPERTIES
  LosesNoVm
