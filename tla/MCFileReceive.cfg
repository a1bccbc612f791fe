SPECIFICATION Spec
CONSTANTS
  w1 = w1
  w2 = w2
  IoWorkers <- TwoWorkers
  MaxChunks = 2
  MaxEdits = 1
  LocalSizes = {1, 2}
  Faults <- EveryFault
  Job = Job
  Idle = Idle
  NoFile = NoFile
INVARIANTS
  RefsCounted
  StreamAliveWhenUsed
  WholeUnlessStale
  NoTempLeft
PROPERTIES
  ImplementsTransfer
  FreedAtLast
