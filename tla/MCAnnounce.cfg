SPECIFICATION Spec
CONSTANTS
  f1 = f1
  f2 = f2
  Files <- TwoFiles
  Ids <- OneOrTwoIds
  Faults <- EveryFault
  MaxLost = 1
  MaxAgain = 1
INVARIANTS
    TakenIntact
  HeadersOutliveReads
PROPERTIES
  HeadersFreed
  AnnouncedArrives
CHECK_DEADLOCK FALSE
