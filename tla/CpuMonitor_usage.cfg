SPECIFICATION Spec
CONSTANTS
  Width = 7
  MaxJiffies = 3
INVARIANTS
  TypeOK
PROPERTIES
  UsageTrue
  PercentBounded
