SPECIFICATION Spec
CONSTANTS
  i1 = i1
  i2 = i2
  c1 = c1
  c2 = c2
  c3 = c3
  Importers <- MCImporters
  Calls <- MCCalls
  Rows <- MCRows
  Document <- MCDocument
  Header <- MCHeader
  PoNumber <- MCPoNumber
  Resembling <- MCRows
  Targets <- MCTargets
  Skip = TRUE
  MaxCommits = 2
  MaxFaults = 2
  MaxChanges = 1
SYMMETRY Symmetric
CHECK_DEADLOCK FALSE
INVARIANTS ImportedIsReal OneDocument CompletedIsReal
