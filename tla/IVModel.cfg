\* Groups of connections, nested functions, types and their instances, each from a
\* small document, with every removal that can be taken back.
CONSTANTS
  fA = fA
  fB = fB
  fT = fT
  r1 = r1
  r2 = r2
  r3 = r3
  p1 = p1
  p2 = p2
  p3 = p3
  c1 = c1
  c2 = c2
  g1 = g1
  sA = sA
  sB = sB
  Functions = {fA, fB, fT}
  Types = {fT}
  Ifaces = {r1, r2, r3, p1, p2, p3}
  Required = {r1, r2, r3}
  Drawn = {r1, p1, p2, p3}
  Title <- TheTitle
  Conns = {c1, c2}
  Groups = {g1}
  GroupEnds <- TheEnds
  Comments = {cm}
  Nobody = nobody
  TheModel = theModel
  Held = held
  Sessions <- AllSessions
  ChildOf <- NestB
SPECIFICATION Spec
INVARIANTS
  UndoRestores
  OwnedOnce
  LinksEndInModel
  GroupsAgree
  InstancesMirror
