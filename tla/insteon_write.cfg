CONSTANTS
  Databases <- SomeDatabases
  Files <- TwoRecords
  ALDB_MAXSIZE = 3
  MaxLost = 0
SPECIFICATION Spec
INVARIANT WritesAll
CHECK_DEADLOCK FALSE
