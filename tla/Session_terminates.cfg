SPECIFICATION Spec
CONSTANTS
  Cycles = {c1, c2}
  MaxDevices = 3
  MaxEdits = 3
  Wired = 2
  Versions <- MCVersions
  Ids = {7}
SYMMETRY Symmetry
INVARIANT LinkReplaceable
CHECK_DEADLOCK FALSE
