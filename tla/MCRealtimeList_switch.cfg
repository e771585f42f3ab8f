\* A cluster with one object is left for one without; nothing fails.
SPECIFICATION FairSpec
CONSTANTS
  o1 = o1 w1 = w1 p1 = p1
  Object = {o1}
  Listed = {"deployments"}
  Watcher = {w1}
  Ours = w1
  Poll = {p1}
  InitRev = 1
  MaxRev = 1
  MaxFaults = 0
  MaxReruns = 1
  Switches = TRUE
PROPERTY SwitchLeavesNothing
CHECK_DEADLOCK FALSE
