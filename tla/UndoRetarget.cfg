\* A message whose tail is moved to another instance, and its undo.
CONSTANTS
  i1 = i1
  i2 = i2
  i3 = i3
  m1 = m1
  k1 = k1
  t1 = t1
  a1 = a1
  Instances = {i1, i2, i3}
  Messages = {m1, k1}
  Creates = {k1}
  Locals = {a1}
  Shared = {}
  Comments = {t1}
  NoInstance = none
  MaxSlots = 2
  Start <- Opened
  About <- CommentOnMessage
  Sessions <- OnlyRetargets
  Adds <- Added
  SaveOutcomes = {TRUE}
  MaxCommands <- Most
SPECIFICATION Spec
\* after undefined behaviour (alive is FALSE) a chart goes no further
CHECK_DEADLOCK FALSE
PROPERTY UndoRedoIsHistory
