\* Creates and deletes, saves that fail, two starts for the same or another cluster.
SPECIFICATION Spec
CONSTANTS
  a1 = a1 c1 = c1 c2 = c2 d1 = d1 k1 = k1 k2 = k2 p1 = p1
  Creates = {a1}
  Stops = {}
  Deletes = {d1}
  Restarts = {}
  Lists = {}
  Restorer = restorer
  Child = {c1, c2}
  NoChild = NoChild
  Port = {p1}
  NoPort = NoPort
  Key = {k1, k2}
  MaxId = 1
  FaultKinds = {"cancel", "read", "save", "spawn", "wait"}
  MaxFaults = 1
  MaxBoots = 2
SYMMETRY ChildSymmetry
INVARIANT FileMatchesListed
PROPERTY ChildrenAccountedFor
CHECK_DEADLOCK FALSE
