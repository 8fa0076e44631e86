SPECIFICATION UploadsSpec
CONSTANTS
  c1 = c1
  c2 = c2
  i1 = i1
  i2 = i2
  p1 = p1
  p2 = p2
  s1 = s1
  d1 = d1
  d2 = d2
  Devices = {d1, d2}
  Collections = {c1}
  Tombstone = Tombstone
  Ids = {i1}
  Payloads = {p1, p2}
  Sortindexes = {s1}
  Ttls = {2}
  Bodies <- MCBodies
  Blank = Blank
  Null = Null
  Headers <- MCHeaders
  Quantum = 2
  DefaultTtl = 100
  MaxTtlInstant = 200
  BatchLifetime = 2
  BatchRetries = 2
  MaxNow = 4
  MaxBatches = 2
  ClockStepsBack = FALSE
INVARIANTS BatchHoldsLedger BatchesAreNotShared CommitLandsOnce
PROPERTIES CommitLandsLedger
SYMMETRY Symmetry
