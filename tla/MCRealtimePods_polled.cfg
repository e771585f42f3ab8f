\* One pod, two polls that may overlap, a switch and one fault of any kind.
SPECIFICATION FairSpec
CONSTANTS
  o1 = o1 s1 = s1 s2 = s2 q1 = q1 q2 = q2
  Object = {o1}
  Socket = {s1, s2}
  NoSocket = NoSocket
  Sync = {q1, q2}
  InitRev = 1
  MaxRev = 2
  MaxFaults = 1
  Switches = TRUE
INVARIANTS MarkedIsHidden MarksExpire OneSocket NothingLeft ConnectionKept
PROPERTIES Implements DetailsForward Reconnects
CHECK_DEADLOCK FALSE
