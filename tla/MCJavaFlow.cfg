\* Two functions, the second with up to five insns and two labels.
SPECIFICATION FairSpec
CONSTANTS
  Labels = {1, 2}
  Values = {0, 1}
  Programs <- SmallPrograms
  MaxInsns = 5
INVARIANTS
  Compiles
PROPERTIES
  ImplementsMir
