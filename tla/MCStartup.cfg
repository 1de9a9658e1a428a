SPECIFICATION Spec
CONSTANTS
  Platforms = {"windows", "linux"}
  MaxVersion = 2
  MaxSets = 4
  MaxCrashes = 3
INVARIANTS
  OneSet
PROPERTIES
  StartsFresh
  StartsAgain
CHECK_DEADLOCK FALSE
