\* A create while the restore runs takes the number of a saved entry.
SPECIFICATION Spec
CONSTANTS
  a1 = a1 c1 = c1 c2 = c2 k1 = k1 p1 = p1 p2 = p2
  Creates = {a1}
  Stops = {}
  Deletes = {}
  Restarts = {}
  Lists = {}
  Restorer = restorer
  Child = {c1, c2}
  NoChild = NoChild
  Port = {p1, p2}
  NoPort = NoPort
  Key = {k1}
  MaxId = 2
  FaultKinds = {}
  MaxFaults = 0
  MaxBoots = 2
SYMMETRY ChildSymmetry
PROPERTY ActiveStayListed
CHECK_DEADLOCK FALSE
