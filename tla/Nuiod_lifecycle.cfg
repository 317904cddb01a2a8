SPECIFICATION Spec
CONSTANTS
  Dom = {1, 2}
  Cpu = {0, 1}
  Node = {0, 1}
  NodeOf <- const_NodeOf
  Happens = {"STARTED", "SHUTDOWN", "STOPPED"}
  MaxPending = 1
INVARIANTS
  TypeOK
  MappingConsistent
  NoVmMissed
  PassKeepsPlacements
PROPERTIES
  ErasesOwnEntry
  ImplementsRegistry
CHECK_DEADLOCK FALSE
