SPECIFICATION Spec
CONSTANTS
  Calls = {a, b}
  Sessions = {s1, s2, s3, s4}
  NoSession = NoSession
  Free = Free
  MaxDeaths = 0
SYMMETRY Symmetry

INVARIANT RunsAtMostOnce
CHECK_DEADLOCK FALSE
