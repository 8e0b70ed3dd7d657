SPECIFICATION Spec
CONSTANTS
  env = env
  example = example
  r1 = r1
  r2 = r2
  a = a
  b = b
  Paths = {env, example}
  First <- MCFirst
  Contents = {a, b}
  Opaque = {b}
  Rendering = Rendering
  Withheld = Withheld
  Absent = Absent
  NoBlob = NoBlob
  Writes <- MCWrites
  Classifications = {{}, {env}}
  Reverters = {r1, r2}
  NoPlan = NoPlan
  Retention = 0
  MaxDays = 1
  MaxRows = 3
INVARIANT
  RecoverableHasBlob
CHECK_DEADLOCK FALSE
