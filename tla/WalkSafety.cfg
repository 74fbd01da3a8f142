SPECIFICATION Spec
CONSTANTS
  Methods <- AllMethods
INVARIANTS
  TypeOK
  NoHaltAfterMutation
  OnlyWritesHaveEffects
  GatesFirst
  WritesHonourPreconditions
  NotModifiedIsSound
  CacheKeySound
  SelfDescribing
