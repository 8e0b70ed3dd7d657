SPECIFICATION FairSpec
CONSTANTS
  Calls = {a, b}
  Sessions = {s1, s2, s3}
  NoSession = NoSession
  Free = Free
  MaxDeaths = 2

INVARIANTS
  TypeOK
  NoStraySession
  ReplayNeedsClosure
  FirstUnreachableIsUnseen
PROPERTY EveryCallReturns
CHECK_DEADLOCK FALSE
