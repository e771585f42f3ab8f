\* Creates and stops while the restore of a second start runs.
SPECIFICATION Spec
CONSTANTS
  a1 = a1 c1 = c1 c2 = c2 s1 = s1 k1 = k1 p1 = p1
  Creates = {a1}
  Stops = {s1}
  Deletes = {}
  Restarts = {}
  Lists = {}
  Restorer = restorer
  Child = {c1, c2}
  NoChild = NoChild
  Port = {p1}
  NoPort = NoPort
  Key = {k1}
  MaxId = 2
  FaultKinds = {}
  MaxFaults = 0
  MaxBoots = 2
SYMMETRY ChildSymmetry
PROPERTY IdsNotReused
CHECK_DEADLOCK FALSE
