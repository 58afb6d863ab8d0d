SPECIFICATION Spec
CONSTANTS
  QScale = 4
  Inf = 2000
  NoId = 100
  leafSize = 1
  NoFile = NoFile
  Tables <- MCTables
  BuiltKD <- MCBuiltKD
INVARIANTS ServesReferences  SectionsApart
