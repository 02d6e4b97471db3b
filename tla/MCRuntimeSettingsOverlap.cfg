CONSTANTS
  Size = 2
  MaxSettings = 3
  Modulus = 8
  Attempts = 3
  Kinds <- MCKinds
  KindOf <- MCKindOf
  Active <- MCActive
  Overlap = TRUE
SPECIFICATION Spec
INVARIANT CountInRange
