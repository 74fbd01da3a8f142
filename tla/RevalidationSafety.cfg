SPECIFICATION FairSpec
CONSTANTS
  c1 = c1
  c2 = c2
  Clients = {c1, c2}
  PAGE_SIZE = 2
  SECOND = 2
  MAX_ETAGS = 1
  MaxEvents = 3
  MaxCount = 2
  MaxClock = 2
  MaxStored = 2
INVARIANTS
  TypeOK
  ShownIsCurrent
  UpdatesReplaceWhatWasSeen
PROPERTIES
  PollersConverge
