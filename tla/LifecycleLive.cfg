SPECIFICATION LoopSpec
CONSTANTS
  r1 = r1
  r2 = r2
  Requests = {r1, r2}
  PoolSize = 1
  MaxChunks = 1
  Guarded = {}
PROPERTIES
  CancelledReleases
  WaitersServed
