SPECIFICATION FairSpec
CONSTANTS
  f1 = f1
  f2 = f2
  c1 = c1
  c2 = c2
  Txns = {t1, t2}
  Paths = {f1, f2}
  Contents = {c1, c2}
  Absent = Absent
  None = None
  Free = Free
  Requests <- MCRequests
  RacingWriters = FALSE
  MaxExternal = 2
  MaxFaults = 1
  MaxCrashes = 1

PROPERTIES
  ImplementsAtomic
  EveryCallAnswered
CHECK_DEADLOCK FALSE
