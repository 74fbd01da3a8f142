SPECIFICATION Spec
CONSTANTS
  r1 = r1
  Requests = {r1}
  PoolSize = 1
  MaxChunks = 1
  Guarded = {}
INVARIANTS
  EveryRequestReported
