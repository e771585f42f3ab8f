\* The kubectls of a backend that ended hold the ports of the restore.
SPECIFICATION Spec
CONSTANTS
  a1 = a1 c1 = c1 k1 = k1 p1 = p1
  Creates = {a1}
  Stops = {}
  Deletes = {}
  Restarts = {}
  Lists = {}
  Restorer = restorer
  Child = {c1}
  NoChild = NoChild
  Port = {p1}
  NoPort = NoPort
  Key = {k1}
  MaxId = 1
  FaultKinds = {}
  MaxFaults = 0
  MaxBoots = 2
SYMMETRY ChildSymmetry
INVARIANT RestoreIsNotBlocked
CHECK_DEADLOCK FALSE
