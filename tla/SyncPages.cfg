SPECIFICATION PagesSpec
CONSTANTS
  c1 = c1
  Collections = {c1}
  Coll = c1
  Tombstone = Tombstone
  Ids = {1, 2, 3}
  Payloads = {}
  Sortindexes = {1, 2}
  Ttls = {2}
  Bodies <- MCBodies
  Blank = Blank
  Null = Null
  Headers <- MCHeaders
  Queries <- MCQueries
  Quantum = 2
  DefaultTtl = 100
  MaxTtlInstant = 200
  BatchLifetime = 2
  BatchRetries = 2
  MaxNow = 6
  MaxBatches = 0
  ClockStepsBack = FALSE
INVARIANTS OrderedPagesTile GuardedPagesTile
PROPERTIES PagesAdvance
