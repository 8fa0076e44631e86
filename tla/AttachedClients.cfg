SPECIFICATION Spec
CONSTANTS
  Sessions = {s1, s2}
  Refreshes = {r1}
  DeviceIds = {d1, d2}
  None = None
SYMMETRY Symmetry
INVARIANTS OneRowEach EndedIsNotListed
CHECK_DEADLOCK FALSE
