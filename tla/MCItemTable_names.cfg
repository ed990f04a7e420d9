\* Two modules and two names, of which the resolver knows one.
SPECIFICATION Spec
CONSTANTS
  Modules = {m1, m2}
  Names = {f, g}
  Resolvable = {f}
  DataNames = {g}
  MaxItems = 4
  MaxAll = 5
  Nobody = Nobody
  Null = Null
  Environment = Environment
  Outside = Outside
INVARIANTS
  TableLeadsToDefinition
  ExportedWherever
  DeclarationsBound
  ImportsBound
  ReferencesBound
  SectionsAdjacent
SYMMETRY ModuleSymmetry
