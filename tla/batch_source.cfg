SPECIFICATION Spec
CONSTANTS
  MaxMessages = 4
  BatchSize = 2
  MaxDrops = 2
INVARIANTS
  HandedOverInOrder
  OneBatchAhead
PROPERTIES
  PublishedIsTaken
  DestructorReturns
CHECK_DEADLOCK FALSE
