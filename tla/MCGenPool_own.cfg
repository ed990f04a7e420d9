\* Two workers, two application threads with a function each, two functions to link.
SPECIFICATION FairSpec
CONSTANTS
  a1 = a1
  a2 = a2
  f1 = f1
  f2 = f2
  Workers = {w1, w2}
  Apps = {a1, a2}
  Main = main
  ParallelFuncs = {p1, p2}
  LazyFuncs = {f1, f2}
  Calls <- OwnFunctions
  CompactAt = 1
  Stop = Stop
  NoFunc = NoFunc
INVARIANTS
  NoLostRequest
  NobodyOversleeps
  LinkDone
  GeneratedOnce
PROPERTIES
  ImplementsQueue
  CallsReturn
  LinkEnds
  AllJoined
