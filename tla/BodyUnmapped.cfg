SPECIFICATION Spec
CONSTANTS
  MaxBytes = 2
  Longest = 6
  None = None
INVARIANTS
  BodyErrorsMapped
