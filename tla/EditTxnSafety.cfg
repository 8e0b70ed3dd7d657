SPECIFICATION Spec
CONSTANTS
  f1 = f1
  f2 = f2
  c1 = c1
  c2 = c2
  Txns = {t1, t2}
  Paths = {f1, f2}
  Contents = {c1, c2}
  Absent = Absent
  None = None
  Free = Free
  Requests <- MCRequests
  RacingWriters = TRUE
  MaxExternal = 2
  MaxFaults = 2
  MaxCrashes = 1

INVARIANTS
  TypeOK
  BaseHolds
  WriteAhead
  AppliedIsWhole
  TornIsReported
  AbortDiscardsStaged
PROPERTY NoLostUpdate
CHECK_DEADLOCK FALSE
