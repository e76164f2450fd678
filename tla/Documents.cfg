\* A root with two documents, one with a chart, and one document to come.
CONSTANTS
  root = root
  d1 = d1
  d2 = d2
  d3 = d3
  k1 = k1
  k2 = k2
  k3 = k3
  k4 = k4
  k5 = k5
  Docs = {root, d1, d2, d3}
  Charts = {k1, k2, k3, k4, k5}
  Root = root
  Nobody = nobody
  Sessions = {"flat", "nested", "any", "mixed"}
  ExactSessions = {"flat", "nested"}
  Start <- Files
  MaxCommands <- Most
SPECIFICATION Spec
CHECK_DEADLOCK FALSE
INVARIANTS
  UndoRestores
  DocumentsAreATree
  NothingDangles
