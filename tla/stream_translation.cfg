CONSTANTS
  MaxEvents = 5
  MaxPieces = 4
  BufferLimit = 2
SPECIFICATION FairSpec
INVARIANTS TypeOK ClientFollows UnderstoodAsSaid EndMeansAll
PROPERTIES StreamEnds
CHECK_DEADLOCK FALSE
