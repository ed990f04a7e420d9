\* A heap that doubles twice, from two bytes to eight. Requests are smaller and
\* larger than the blocks that are left over, and bytes have two values.
SPECIFICATION Spec
CONSTANTS
  HeapStart = 2
  InitialMemory = 2
  Doublings <- ThreeDoublings
  MemoryBound = 8
  IntBound = 16
  RequestSizes = {1, 3}
  Bytes = {0, 1}
  Strings = {lit1}
  StrLen <- MCStrLen
INVARIANTS
  BlocksDisjoint
  BlocksCover
  Accounted
  LiteralsIntact
  OnlyNullThrows
PROPERTIES
  ImplementsPromise
VIEW HeapView
CHECK_DEADLOCK FALSE
