SPECIFICATION Spec
CONSTANTS
  r1 = r1
  r2 = r2
  r3 = r3
  r4 = r4
  Requests = {r1, r2, r3, r4}
  alice = alice
  root = root
  Users = {alice, root}
  Admins = {root}
  n0 = n0
  Paths = {n0}
  None = None
  Star = Star
SYMMETRY Symmetry
INVARIANTS
  TypeOK
  OnlyOwnersSucceed
  PostedNotesSurvive
  SerialUpdatesGuarded
  TagsStableWithinLife
PROPERTIES
  ImplementsStore
