\* One tab of each kind: three attempts, three shells (two Ctrl-C that start
\* another, a third that cannot), four messages, two losses.
CONSTANTS
  MaxShells = 3
  MaxKeys   = 4
  MaxFaults = 2
SPECIFICATION FairSpec
INVARIANTS
  TypeOK
  NoOrphanShell
  SessionIsTold
  RetriesEnd
PROPERTY
  ClosedTabEnds
CHECK_DEADLOCK FALSE
