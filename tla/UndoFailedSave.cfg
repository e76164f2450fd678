\* A save that fails.
CONSTANTS
  i1 = i1
  i2 = i2
  i3 = i3
  m1 = m1
  k1 = k1
  t1 = t1
  a1 = a1
  Instances = {i1, i2, i3}
  Messages = {m1, k1}
  Creates = {k1}
  Locals = {a1}
  Shared = {}
  Comments = {t1}
  NoInstance = none
  MaxSlots = 2
  Start <- Opened
  About <- CommentOnMessage
  Sessions <- OnlySaves
  Adds <- Added
  SaveOutcomes = {FALSE}
  MaxCommands <- Most
SPECIFICATION Spec
\* after undefined behaviour (alive is FALSE) a chart goes no further
CHECK_DEADLOCK FALSE
INVARIANT CleanIsSaved
