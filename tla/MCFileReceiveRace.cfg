SPECIFICATION Safety
CONSTANTS
  w1 = w1
  w2 = w2
  IoWorkers <- TwoWorkers
  MaxChunks = 2
  MaxEdits = 0
  LocalSizes = {1, 2}
  Faults <- NoFaults
  Job = Job
  Idle = Idle
  NoFile = NoFile
SYMMETRY Symmetry
INVARIANTS
  WrongSizeNotInstalled
