\* Two modules and two names, functions and data.
SPECIFICATION SymbolsSpec
CONSTANTS
  Names = {f, g}
  Kinds = {"function", "data"}
  ModulesNum = 2
INVARIANTS
  NamesApart
  ReferencesBind
SYMMETRY NameSymmetry
