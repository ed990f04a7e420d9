SPECIFICATION Spec
CONSTANTS
  Letters = {1, 2}
  MaxWord = 12
  MaxRest = 9
  Inputs <- SmallInputs
  ByteBits = 4
  SymbTagLen = 2
  StartLen = 3
  BufLen = 13
  TableSize = 8
  MaxSymbLen = 4
  Hash <- SmallHash
INVARIANTS
  RoundTrip
CHECK_DEADLOCK FALSE
