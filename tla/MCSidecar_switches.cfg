\* Two switches, the second while the first may still run; no wait for the flag runs out.
SPECIFICATION Spec
CONSTANTS
  c1 = c1 c2 = c2 s1 = s1 s2 = s2 b1 = b1 b2 = b2
  Context = {c1, c2}
  InitContext = c1
  Switches = {s1, s2}
  Logins = {}
  Commands = {}
  Monitor = monitor
  Backend = {b1, b2}
  NoBackend = NoBackend
  NumPorts = 3
  FaultKinds = {"probe"}
  MaxFaults = 1
  MaxGiveUps = 1
  MaxLaunches = 0
INVARIANTS
  BackendServesConfig
  WaitIsAnswered
CHECK_DEADLOCK FALSE
