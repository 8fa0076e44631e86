SPECIFICATION Spec
CONSTANTS
  w1 = w1
  w2 = w2
  a1 = a1
  a2 = a2
  k1 = k1
  k2 = k2
  k3 = k3
  Workers = {w1, w2}
  Accounts = {a1, a2}
  Auths <- MCShortLife
  Unreported = Unreported
  MaxUids = 3
  MaxClock = 1
INVARIANTS NoUidHandedOn RetiredStaysOut
SYMMETRY Symmetry
