\* Two transforming threads, one reader; arrays of one element grow twice.
SPECIFICATION Spec
CONSTANTS
  Workers = {w1, w2}
  Readers = {r1}
  Keys = {k1, k2, k3}
  Null = Null
  InitialLength = 1
PROPERTIES KeepsPromise
SYMMETRY Symmetry
INVARIANTS TypeOK OneIdPerKey UsableAtOnce SnapshotsSound
