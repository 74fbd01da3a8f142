SPECIFICATION Spec
CONSTANTS
  MaxBytes = 2
  Longest = 6
  None = None
INVARIANTS
  TypeOK
  CapHolds
  AppliedIsWhole
  VerdictTruthful
  ConsumedMeansFailed
  CommandReported
