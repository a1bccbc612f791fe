SPECIFICATION Spec
CONSTANTS
  server = server
  c1 = c1
  c2 = c2
  none = none
  empty = empty
  p = p
  q = q
  Byte = {0, 1}
  SaltLength = 2
  Server <- server
  Clients <- TwoClients
  Given <- SomePasswords
  NoPassword <- empty
  SaltOf <- SomeSalts
  Quitters <- ServerAndOne
  Faults <- EveryFault
  NoOne <- none
INVARIANTS
  TypeOK
  SamePassword
  AnswersGoBack
  UsesAlive
PROPERTIES
  Connects
  ExitReturns
CHECK_DEADLOCK FALSE
