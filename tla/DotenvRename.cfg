SPECIFICATION Spec
CONSTANTS
  ValidKeys = {"A", "B", "C"}
  Disclosed = {}
  Starts <- MCStarts
  Args <- MCArgs
  MaxOps = 2
INVARIANT
  ValuesRideAlong
CHECK_DEADLOCK FALSE
