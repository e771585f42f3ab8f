\* Two overlapping switches: success is reported for a context nobody verified.
SPECIFICATION Spec
CONSTANTS
  c1 = c1 c2 = c2
  s1 = s1 s2 = s2 b1 = b1 b2 = b2 b3 = b3
  Context = {c1, c2}
  InitContext = c1
  Switches = {s1, s2}
  Logins = {}
  Commands = {}
  Monitor = monitor
  Backend = {b1, b2, b3}
  NoBackend = NoBackend
  NumPorts = 4
  FaultKinds = {"wait"}
  MaxFaults = 0
  MaxGiveUps = 1
  MaxLaunches = 0
SYMMETRY BackendSymmetry
PROPERTY SwitchIsVerified
CHECK_DEADLOCK FALSE
