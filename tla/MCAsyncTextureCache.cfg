SPECIFICATION Spec
CONSTANTS
  Keys = {k1, k2, k3}
  Images = {i1, i2}
  Workers = {w1, w2}
  MaxUnused = 1
  NoKey = NoKey
INVARIANTS CacheInv ShownIsResident OneTexturePerReadyEntry
PROPERTIES SourceIsResolved DestroyTerminates
CHECK_DEADLOCK FALSE
