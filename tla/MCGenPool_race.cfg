\* Two workers; two application threads that call the same function.
SPECIFICATION Spec
CONSTANTS
  a1 = a1
  a2 = a2
  f1 = f1
  f2 = f2
  Workers = {w1, w2}
  Apps = {a1, a2}
  Main = main
  ParallelFuncs = {p1}
  LazyFuncs = {f1, f2}
  Calls <- SameFunction
  CompactAt = 1
  Stop = Stop
  NoFunc = NoFunc
INVARIANTS
  AssertionHolds
