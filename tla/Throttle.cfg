SPECIFICATION Spec
CONSTANTS
  w1 = w1
  w2 = w2
  k1 = k1
  k2 = k2
  k3 = k3
  NoKey = NoKey
  Workers = {w1, w2}
  Keys = {k1, k2, k3}
  Limit = 1
  Window = 2
  MaxEntries = 2
  MaxLag = 1
INVARIANTS TypeOK GuessesBounded
PROPERTIES EvictsTheOldest LockoutEnds
