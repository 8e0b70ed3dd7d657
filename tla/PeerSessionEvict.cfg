SPECIFICATION Spec
CONSTANTS
  Calls = {a, b}
  Sessions = {s1, s2, s3}
  NoSession = NoSession
  Free = Free
  MaxDeaths = 1
SYMMETRY Symmetry

INVARIANT EvictsNoLiveCall
CHECK_DEADLOCK FALSE
