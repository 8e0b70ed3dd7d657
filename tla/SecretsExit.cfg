SPECIFICATION Spec
CONSTANTS
  a = a
  b = b
  s = s
  g = g
  z = z
  r1 = r1
  r2 = r2
  q = q
  home = home
  peer = peer
  v = v
  klams = klams
  skant = skant
  Tags = {klams, skant}
  NoTag = NoTag
  TagLength <- MCTagLength
  TagClasses <- MCTagClasses
  TagAlphabets <- MCTagAlphabets
  ProviderTags = {skant}
  OpenTags = {}
  NoShape = NoShape
  c1 = c1
  c2 = c2
  Calls = {c1, c2}
  Requests <- MCRequests
  Locs = {a, b, s, g, z}
  RootOf <- MCRootOf
  HostOf <- MCHostOf
  Home = home
  Seeds = {v}
  FormOf <- MCFormOf
  First <- MCFirst
  NoKey = NoKey
  EmptyValue = EmptyValue
  Classified = {a, b, s, z}
  AllowReveal = TRUE
  NoReq = NoReq
  NoValue = NoValue
  NoLoc = NoLoc
  Drawn <- MCDrawn
  MaxEdits = 2
  MaxFaults = 0

INVARIANT
  ExitIsJournalled
CHECK_DEADLOCK FALSE
