\* Two objects, a watcher of an earlier page, one fault and one refresh or switch.
SPECIFICATION FairSpec
CONSTANTS
  o1 = o1 o2 = o2 w1 = w1 w2 = w2 Ours = w1 p1 = p1
  Object = {o1, o2}
  Listed <- Sorts
  Watcher = {w1, w2}
  Poll = {p1}
  InitRev = 1
  MaxRev = 2
  MaxFaults = 1
  MaxReruns = 1
  Switches = TRUE
INVARIANTS SpinnerOwed StillIsFaithful
PROPERTIES MovesForward Implements LoadingEnds
CHECK_DEADLOCK FALSE
