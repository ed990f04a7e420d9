\* A stack of two bytes; calls within calls.
SPECIFICATION CallsSpec
CONSTANTS
  StackStart = 8
  MaxStackSize = 10
  Sizes = {1, 2}
  Values = {a, b}
  MaxArgs = 2
  MaxDepth = 2
  MaxBlocks = 1
SYMMETRY MCSymmetry
INVARIANTS
  FramesApart
  GivesArguments
PROPERTIES
  StackBalanced
