SPECIFICATION Spec
CONSTANTS
  Width = 5
  Epoch = 1000
  MaxAge = 2
  MaxPassed = 2
  Traffic = {{}, {"rx", "tx"}}
  MaxTrouble = 2
  io_threshold = 1
INVARIANTS
  TypeOK
  RatesReal
  VerdictSound
