\* A switch and the monitor; the application exits or is killed and starts again.
SPECIFICATION FairSpec
CONSTANTS
  c1 = c1 c2 = c2 s1 = s1 b1 = b1 b2 = b2 b3 = b3 b4 = b4
  Context = {c1, c2}
  InitContext = c1
  Switches = {s1}
  Logins = {}
  Commands = {}
  Monitor = monitor
  Backend = {b1, b2, b3, b4}
  NoBackend = NoBackend
  NumPorts = 4
  FaultKinds = {"save", "spawn", "probe", "crash", "wait", "kill"}
  MaxFaults = 1
  MaxGiveUps = 0
  MaxLaunches = 1
PROPERTIES
  BackendsAccountedFor
  MonitorRecovers
  UiWaitEnds
CHECK_DEADLOCK FALSE
