SPECIFICATION Spec
CONSTANTS
  r1 = r1
  r2 = r2
  Requests = {r1, r2}
  PoolSize = 1
  MaxChunks = 1
  Guarded = {r1, r2}
SYMMETRY Symmetry
INVARIANTS
  TypeOK
  ReleaseOnce
  AliveWhileStreaming
  WholeAnswerIsBacked
  HandledErrorRollsBack
  OkReportIsTrue
  ReleasedIsReported
  StreamFailureKnown
PROPERTIES
  ImplementsBoundary
