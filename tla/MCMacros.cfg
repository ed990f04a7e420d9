SPECIFICATION Spec
CONSTANTS
  MaxBody = 2
  MaxCalls = 2
  Names = {"a", "f", "g", "h", "x", "y"}
  Signs = {"(", ")", ",", " "}
  Programs <- SmallPrograms
INVARIANTS
  CallsMirrored
  SameAsStandard
PROPERTIES
  Ends
CHECK_DEADLOCK FALSE
