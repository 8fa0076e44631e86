SPECIFICATION Spec
CONSTANTS
  w1 = w1
  w2 = w2
  u1 = u1
  u2 = u2
  s1 = s1
  s2 = s2
  k1 = k1
  c1 = c1
  r1 = r1
  r2 = r2
  d1 = d1
  d2 = d2
  None = None
  Workers = {w1, w2}
  Uids = {u1}
  Sessions = {s1, s2}
  KeyFetches = {k1}
  Codes = {c1}
  Refreshes = {r1}
  DeviceIds = {d1, d2}
INVARIANTS TypeOK NoOrphans OneDeviceEach GivenIsSpent HonouredWithinThePool RevokedStaysOut
SYMMETRY Symmetry
