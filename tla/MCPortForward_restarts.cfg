\* Two restarts of one entry beside the polled list.
SPECIFICATION FairSpec
CONSTANTS
  a1 = a1 c1 = c1 c2 = c2 k1 = k1 l1 = l1 p1 = p1 r1 = r1 r2 = r2
  Creates = {a1}
  Stops = {}
  Deletes = {}
  Restarts = {r1, r2}
  Lists = {l1}
  Restorer = restorer
  Child = {c1, c2}
  NoChild = NoChild
  Port = {p1}
  NoPort = NoPort
  Key = {k1}
  MaxId = 1
  FaultKinds = {"cancel", "exit"}
  MaxFaults = 1
  MaxBoots = 1
INVARIANTS
  TypeOK
  RunningHasProcess
PROPERTY ExitedIsNoticed
CHECK_DEADLOCK FALSE
