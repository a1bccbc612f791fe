SPECIFICATION IdSpec
CONSTANTS
  IdBytes = 8
  Ids = 3
  RestIsAlone = TRUE
  InitialFileIdBytes = {0}
INVARIANTS
  IdTypeOK
  IdsFound
