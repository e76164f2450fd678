\* An interface view of two functions and two files with their instances.
CONSTANTS
  f1 = f1
  f2 = f2
  f3 = f3
  p1 = p1
  i1 = i1
  i2 = i2
  i3 = i3
  i4 = i4
  m1 = m1
  m2 = m2
  a = a
  b = b
  c = c
  Functions = {f1, f2, f3}
  Interfaces = {p1}
  Cores <- Files
  Instances <- InstancesInOrder
  Chart <- Charts
  CoreOf <- FileOf
  IV = iv
  Names = {a, b, c}
  Fold <- NoCase
  None = none
  Sessions <- Apart
SPECIFICATION Spec
CHECK_DEADLOCK FALSE
INVARIANTS
  NamesAgree
  FunctionNamesUnique
  UndoRestores
