SPECIFICATION Spec
CONSTANTS
  env = env
  example = example
  doc = doc
  k1 = k1
  k2 = k2
  v1 = v1
  v2 = v2
  text = text
  Paths = {env, example, doc}
  Classified = {env}
  Keys = {k1, k2}
  Values = {v1, v2}
  Empty = Empty
  NoEntry = NoEntry
  Prose = {text}
  Absent = Absent
  NoBuf = NoBuf
  Known = {v1}
  Disks <- MCDisks
  Drafts <- MCDrafts
  Acks <- MCAcks
  MaxOps = 3

INVARIANT
  OpsApplyInOrder
CHECK_DEADLOCK FALSE
