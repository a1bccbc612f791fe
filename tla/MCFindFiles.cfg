SPECIFICATION Spec
CONSTANTS
  Entries <- FourEntries
  Root <- Zero
  Trees <- TreesOfFour
  Functions <- BothFunctions
  Faults <- EveryFault
  MaxFailed = 1
INVARIANTS
  TypeOK
  ParentFirst
  Complete
  UniqueIds
PROPERTIES
  Returns
