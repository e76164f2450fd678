\* Two clients and three or four requests.
CONSTANTS
  i1 = i1
  i2 = i2
  a = a
  b = b
  c = c
  u = u
  v = v
  Instances = {i1, i2, i3, i4, i5}
  Messages = {m1, m2, m3, k1, k2, k3}
  Creates = {k1, k2, k3}
  Locals = {a1, a2, a3, a4}
  Shared = {}
  Comments = {}
  NoInstance = none
  MaxSlots = 2
  Start <- TwoInstances
  About <- NoComments
  Sessions <- AllKinds
  Adds <- Anything
  SaveOutcomes = {TRUE}
  MaxCommands <- FourCommands
  Clients = {u, v}
  Names = {a, b, c}
  NoName = noName
  StartNames <- TwoNames
  DefaultName <- SomeNames
  MaxRequests <- AtMost
SPECIFICATION RemoteSpec
CHECK_DEADLOCK FALSE
INVARIANTS
  NamesAreUnique
  UndoRestores
  AnsweredOnce
