SPECIFICATION ReaderSpec
CONSTANTS
  c1 = c1
  c2 = c2
  i1 = i1
  i2 = i2
  p1 = p1
  p2 = p2
  s1 = s1
  Collections = {c1}
  Tombstone = Tombstone
  Ids = {i1}
  Payloads = {p1, p2}
  Sortindexes = {s1}
  Ttls = {2, 4}
  Bodies <- MCBodies
  Blank = Blank
  Null = Null
  Headers <- MCHeaders
  Quantum = 2
  DefaultTtl = 100
  MaxTtlInstant = 200
  BatchLifetime = 2
  BatchRetries = 2
  MaxNow = 6
  MaxBatches = 1
  ClockStepsBack = FALSE
INVARIANTS MirrorCompleteThroughRevival
