SPECIFICATION IdSpec
CONSTANTS
  IdBytes = 8
  Ids = 3
  RestIsAlone = FALSE
  InitialFileIdBytes = {0}
INVARIANTS
  IdsFound
