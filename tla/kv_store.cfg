\* Two writers, two keys.  The bounds stop the model in the end.
SPECIFICATION Spec
CONSTANTS
  Writers = {w1, w2}
  Keys = {k1, k2}
  Counters = {k1}
  Filter = {k1, k2}
  Removals = {"delete"}
  History = 1
  CopyRows <- MCCopyRows
  Null = Null
  MaxRevisions = 3
  MaxBuckets = 2
  w1 = w1
  w2 = w2
  k1 = k1
  k2 = k2
SYMMETRY MCSymmetry
INVARIANTS
  MirrorFollows
  NoLostUpdate
  CopyPutsPrefix
CHECK_DEADLOCK FALSE
