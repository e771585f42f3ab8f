\* Three hooks over two resources in the desktop shell; connections that fail, are lost or go silent.
SPECIFICATION FairSpec
CONSTANTS
  h1 = h1 h2 = h2 h3 = h3 pods = pods nodes = nodes
  s1 = s1 s2 = s2 s3 = s3
  Hook = {h1, h2, h3}
  Resource = {pods, nodes}
  ResourceOf <- Lists
  Socket = {s1, s2, s3}
  NoSocket = NoSocket
  Desktop = TRUE
  MaxFaults = 1
INVARIANTS
  NothingLeftOpen
  NoSecondSocket
  ListenedIsWatched
  WatchedOnce
  OpenIsGuarded
  NotAbandoned
PROPERTY ListenersServed
