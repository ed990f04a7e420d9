\* One or two compilers, four source files; the queue is compacted beyond one.
SPECIFICATION FairSpec
CONSTANTS
  MaxThreads = 2
  FilesNum = 4
  CommandLines <- SmallCommandLines
  Rank <- NamesOfManyModules
  CompactAt = 1
  Main = Main
  Stop = Stop
  NoFile = NoFile
INVARIANTS
  ContainerLives
  CompiledOnce
  ErrorsKept
  LoadOrder
PROPERTIES
  ImplementsQueue
  Ends
