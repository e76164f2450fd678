\* The events of one palette on up to three instances.
CONSTANTS
  m1 = m1
  k1 = k1
  k2 = k2
  a1 = a1
  s1 = s1
  t1 = t1
  Instances = {i1, i2, i3}
  Messages = {m1, k1, k2}
  Creates = {k1, k2}
  Locals = {a1}
  Shared = {s1}
  Comments = {t1}
  NoInstance = none
  MaxSlots = 2
SYMMETRY Symm
SPECIFICATION MCSpec
\* after undefined behaviour (alive is FALSE) a chart goes no further
CHECK_DEADLOCK FALSE
INVARIANTS
  TypeOK
  NoDuplicates
  OnlyRelatedListed
  RelatedListed
  ConnectedOnce
  CreatorHasCreate
  NoCyclicCreation
PROPERTIES
  OneEventMoves
