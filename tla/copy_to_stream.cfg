SPECIFICATION Spec
CONSTANTS
  s1 = s1
  s2 = s2
  Calls = {s1, s2, c1}
  NoCall = NoCall
  MaxFiles = 3
  Contents <- MCContents
  Statements = {s1, s2}
  Rows <- MCRows
  MaxDrops = 1
INVARIANTS
  SchemaIsCurrent
  BuildsWhatCanBeBuilt
  CopyStoresRows
PROPERTIES
  CacheIsReleased
CHECK_DEADLOCK FALSE
