\* A cache bounded in slots and bytes, with the eviction callback.
SPECIFICATION Spec
CONSTANTS
  Keys = {k1, k2, k3}
  Values = {v1, v2, v3}
  ByteSizes = {1, 2}
  SlotLimits = {0, 2, 3}
  ByteLimits = {1, 3}
  Tuples = {t1, t2, t3}
  Nil = Nil
  enable_eviction_cb = TRUE
INVARIANTS
  NoFreedValueCached
  RaisesOnlyWhenTooBig
  CountersExact
PROPERTIES
  ImplementsLRU
  CallsEnd
SYMMETRY Symmetry
