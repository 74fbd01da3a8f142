SPECIFICATION Spec
CONSTANTS
  Ranges <- MCRanges
  Offers <- MCOffers
  RawQ <- MCRawQ
  Garbage = Garbage
  MaxRanges = 2
  MaxHeader = 3
  MaxOffers = 2
INVARIANTS
  RefusalRespected
