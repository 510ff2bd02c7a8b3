SPECIFICATION Spec
CONSTANTS
  i1 = i1
  i2 = i2
  c1 = c1
  c2 = c2
  c3 = c3
  Importers <- MCImporters
  Calls <- MCCalls
  Rows <- MCRows
  Document <- MCDocument
  Header <- MCHeader
  PoNumber <- MCPoNumber
  Resembling = {}
  Targets <- MCTargets
  Skip = TRUE
  MaxCommits = 2
  MaxFaults = 1
  MaxChanges = 0
SYMMETRY Symmetric
CHECK_DEADLOCK FALSE
INVARIANT HeldIsUnmade
