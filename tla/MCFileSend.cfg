SPECIFICATION Spec
CONSTANTS
  s1 = s1
  s2 = s2
  Streams <- TwoStreams
  NoStream = NoStream
  MAX_OUTSTANDING_SENDS = 2
  CounterModulus = 4
  MaxBlocks = 2
  Faults <- EveryFault
INVARIANTS
  CounterMatches
  NothingAfterFin
  DeletedIsFinished
  NoStall
  InOrder
PROPERTIES
  SentToTheEnd
