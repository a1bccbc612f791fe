SPECIFICATION Spec
CONSTANTS
  SizeBytes = 4
  Sizes <- FourMessages
  Unset = {0, 2}
INVARIANTS
  TypeOK
  FramedWhileRegular
