SPECIFICATION Spec
CONSTANTS
  SizeBytes = 2
  Sizes <- ThreeMessages
  Unset = {0}
INVARIANTS
  Framed
