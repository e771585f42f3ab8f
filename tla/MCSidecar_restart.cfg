\* A switch and a login against the monitor; every kind of fault, one of them.
SPECIFICATION Spec
CONSTANTS
  c1 = c1 c2 = c2 s1 = s1 l1 = l1 b1 = b1 b2 = b2 b3 = b3
  Context = {c1, c2}
  InitContext = c1
  Switches = {s1}
  Logins = {l1}
  Commands = {}
  Monitor = monitor
  Backend = {b1, b2, b3}
  NoBackend = NoBackend
  NumPorts = 3
  FaultKinds = {"save", "spawn", "probe", "crash", "port", "wait", "kill"}
  MaxFaults = 1
  MaxGiveUps = 0
  MaxLaunches = 0
SYMMETRY BackendSymmetry
INVARIANTS
  TypeOK
  RestartLock
  RestartFillsEmptySlot
PROPERTY BackendsAccountedFor
CHECK_DEADLOCK FALSE
