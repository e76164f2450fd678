\* One connection per required interface, several, and InheritPI switched while
\* connected.
CONSTANTS
  r1 = r1
  r2 = r2
  p1 = p1
  p2 = p2
  RIs = {r1, r2}
  PIs = {p1, p2}
  ParamLists = {"none", "x"}
  RIKinds = {"Any", "Sporadic"}
  PIKinds = {"Sporadic", "Cyclic"}
  Unset = unset
  Sessions <- SwitchOnly
SPECIFICATION Spec
INVARIANT SwitchTakesEffect
