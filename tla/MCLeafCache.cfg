SPECIFICATION Spec
CONSTANTS
  Readers = {r1, r2}
  Leaves = {a, b, c}
  Capacity = 2
  MaxRange = 2
  MaxAlloc = 4
INVARIANTS OneOwner UseLiveUnlessRaced LruExact
SYMMETRY CacheSymmetry
CHECK_DEADLOCK FALSE
