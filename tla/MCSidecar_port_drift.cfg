\* One switch that succeeds, no other program on any port.
SPECIFICATION Spec
CONSTANTS
  c1 = c1 c2 = c2
  s1 = s1 b1 = b1 b2 = b2 b3 = b3
  Context = {c1, c2}
  InitContext = c1
  Switches = {s1}
  Logins = {}
  Commands = {}
  Monitor = monitor
  Backend = {b1, b2, b3}
  NoBackend = NoBackend
  NumPorts = 4
  FaultKinds = {}
  MaxFaults = 0
  MaxGiveUps = 0
  MaxLaunches = 0
SYMMETRY BackendSymmetry
INVARIANT PortDoesNotDrift
CHECK_DEADLOCK FALSE
