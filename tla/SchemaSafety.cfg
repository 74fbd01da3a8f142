SPECIFICATION DocumentedSpec
CONSTANTS
  Methods <- AllMethods
  Overrides <- Resources
INVARIANTS
  DocumentCovers
