SPECIFICATION Spec
CONSTANTS
  Accounts = {a1, a2}
  Browsers = {b1, b2}
  k1 = k1
  k2 = k2
  secret1 = secret1
  url1 = url1
  url2 = url2
  Configs <- MCConfigs
  None = None
  AccessTtl = 2
  TokenTtl = 1
  MaxUids = 2
  MaxClock = 3
SYMMETRY Symmetry
INVARIANTS RevocationReachesStorage OwnStorageOnly
CHECK_DEADLOCK FALSE
