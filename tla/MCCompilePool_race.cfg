\* The same, two source files.
SPECIFICATION FairSpec
CONSTANTS
  MaxThreads = 2
  FilesNum = 2
  CommandLines <- SmallCommandLines
  Rank <- NamesOfManyModules
  CompactAt = 1
  Main = Main
  Stop = Stop
  NoFile = NoFile
INVARIANT OutputsNamed
