CONSTANTS
  Instances = {i1, i2}
  Timers = {s1, s2, e1, e2}
  Starts = {s1, s2}
  Names = {A, B}
  Suffix <- Unnumbered
  NoInstance = none
  NoTimer = null
  Sessions = {{"delete"}, {"delete", "rename"}}
SPECIFICATION Spec
SYMMETRY Symmetry
INVARIANTS
  TypeOK
  LinksMutual
  PairsOnLifeline
  PairsAreNearest
