CONSTANTS
  MaxConns = 2
  MaxCursors = 1
  MaxTxs = 1
  MaxImports = 1
  MaxStatements = 2
  MaxResult = 2
  MaxBatch = 2
  SavepointNames = {sp1}
  Databases = {d1}
  StreamIds = {s1}
  None = None
SPECIFICATION MCSpec
CHECK_DEADLOCK FALSE
INVARIANTS
  TypeOK
  OwnedByOpenConnection
  NothingLeaks
  ResultsFollowTheirTransaction
  WorkIsAtomic
  PiecesAddUp
